---------------------------- MODULE Spec2Model ----------------------------
(***************************************************************************)
(* A model of the ch432 SPI dual-UART driver (src/ch432.c).                *)
(*                                                                         *)
(* The state is the chip's register file (two channels, with the           *)
(* divisor-latch banking of registers 0 and 1), the driver's per-channel   *)
(* data (struct ch43x_one and the fields of struct uart_port the driver    *)
(* uses), the two controller mutexes, the four work items of each channel  *)
(* and the position of every thread of control: the threaded interrupt     *)
(* handler, one worker per work item, and one serial-core caller per port. *)
(* A step is one statement group of the code between two points where      *)
(* another thread can interleave: a mutex acquisition, one bus             *)
(* transaction, a release.                                                 *)
(***************************************************************************)
EXTENDS Integers, Sequences, FiniteSets, TLC

(***************************************************************************)
(* Register numbers and bits, as #defined in the source.                   *)
(***************************************************************************)
CH43X_RHR_REG == 0
CH43X_THR_REG == 0
CH43X_IER_REG == 1
CH43X_IIR_REG == 2
CH43X_FCR_REG == 2
CH43X_LCR_REG == 3
CH43X_MCR_REG == 4
CH43X_LSR_REG == 5
CH43X_MSR_REG == 6
CH43X_SPR_REG == 7
CH43X_DLL_REG == 0
CH43X_DLH_REG == 1

CH43X_IER_RDI_BIT == 1
CH43X_IER_THRI_BIT == 2
CH43X_IER_RLSI_BIT == 4
CH43X_IER_MSI_BIT == 8
CH43X_IER_SLEEP_BIT == 32
CH43X_IER_CK2X_BIT == 32

CH43X_FCR_FIFO_BIT == 1
CH43X_FCR_RXRESET_BIT == 2
CH43X_FCR_TXRESET_BIT == 4
CH43X_FCR_RXLVLH_BIT == 128

CH43X_IIR_NO_INT_BIT == 1
CH43X_IIR_ID_MASK == 14
CH43X_IIR_THRI_SRC == 2
CH43X_IIR_RDI_SRC == 4
CH43X_IIR_RLSE_SRC == 6
CH43X_IIR_RTOI_SRC == 12
CH43X_IIR_MSI_SRC == 0

CH43X_LCR_STOPLEN_BIT == 4
CH43X_LCR_PARITY_BIT == 8
CH43X_LCR_ODDPARITY_BIT == 0
CH43X_LCR_EVENPARITY_BIT == 16
CH43X_LCR_MARKPARITY_BIT == 32
CH43X_LCR_SPACEPARITY_BIT == 48
CH43X_LCR_TXBREAK_BIT == 64
CH43X_LCR_DLAB_BIT == 128
CH43X_LCR_WORD_LEN_5 == 0
CH43X_LCR_WORD_LEN_6 == 1
CH43X_LCR_WORD_LEN_7 == 2
CH43X_LCR_WORD_LEN_8 == 3
CH43X_LCR_CONF_MODE_A == CH43X_LCR_DLAB_BIT

CH43X_MCR_DTR_BIT == 1
CH43X_MCR_RTS_BIT == 2
CH43X_MCR_OUT1 == 4
CH43X_MCR_OUT2 == 8
CH43X_MCR_LOOP_BIT == 16
CH43X_MCR_AFE == 32

CH43X_LSR_DR_BIT == 1
CH43X_LSR_OE_BIT == 2
CH43X_LSR_PE_BIT == 4
CH43X_LSR_FE_BIT == 8
CH43X_LSR_BI_BIT == 16
CH43X_LSR_BRK_ERROR_MASK == 30
CH43X_LSR_THRE_BIT == 32
CH43X_LSR_TEMT_BIT == 64
CH43X_LSR_FIFOE_BIT == 128

CH43X_FIFO_SIZE == 16
CRYSTAL_FREQ == 22118400
\* devtype.nr_uart: the two channels of the chip
NR_UART == 2
\* the size of the serial core's transmit ring, a power of two
UART_XMIT_SIZE == 4096
\* bit 0 of serial_rs485.flags
SER_RS485_ENABLED == 1

Ports == 0 .. (NR_UART - 1)
Byte == 0 .. 255

(***************************************************************************)
(* Bit operations on bytes (C's &, | and ~ on u8).                         *)
(***************************************************************************)
RECURSIVE BitAndN(_, _, _)
BitAndN(a, b, n) ==
    IF n = 0 \/ a = 0 \/ b = 0 THEN 0
    ELSE (IF a % 2 = 1 /\ b % 2 = 1 THEN 1 ELSE 0)
         + 2 * BitAndN(a \div 2, b \div 2, n - 1)

And(a, b) == BitAndN(a, b, 8)
Not8(a) == 255 - (a % 256)
Or(a, b) == (a % 256) + (b % 256) - And(a, b)
Has(a, bit) == And(a, bit) # 0

Min(a, b) == IF a < b THEN a ELSE b


(***************************************************************************)
(* ch43x_md_proc: the MCR byte composed from port.mctrl (a set of TIOCM    *)
(* names; the UART_MCR bits have the CH43X_MCR values) and the forced bits.*)
(***************************************************************************)
TIOCM == {"TIOCM_RTS", "TIOCM_DTR", "TIOCM_OUT1", "TIOCM_OUT2", "TIOCM_LOOP"}

McrOfMctrl(mctrl) ==
    (IF "TIOCM_RTS" \in mctrl THEN CH43X_MCR_RTS_BIT ELSE 0)
    + (IF "TIOCM_DTR" \in mctrl THEN CH43X_MCR_DTR_BIT ELSE 0)
    + (IF "TIOCM_OUT1" \in mctrl THEN CH43X_MCR_OUT1 ELSE 0)
    + (IF "TIOCM_OUT2" \in mctrl THEN CH43X_MCR_OUT2 ELSE 0)
    + (IF "TIOCM_LOOP" \in mctrl THEN CH43X_MCR_LOOP_BIT ELSE 0)

MdMcr(mctrl, mcr_force) == Or(McrOfMctrl(mctrl), mcr_force)

(***************************************************************************)
(* ch43x_set_termios: a termios is [csize, cflag, iflag, baud], cflag and  *)
(* iflag being sets of flag names.                                         *)
(***************************************************************************)
CSIZE == {"CS5", "CS6", "CS7", "CS8"}
CFlags == {"PARENB", "PARODD", "CMSPAR", "CSTOPB", "CRTSCTS", "CREAD"}
IFlags == {"INPCK", "BRKINT", "PARMRK", "IGNBRK"}

\* line 825: termios->c_cflag &= ~CMSPAR
MaskCflag(cflag) == cflag \ {"CMSPAR"}

\* lines 828-846
WordLenLcr(csize) ==
    CASE csize = "CS5" -> CH43X_LCR_WORD_LEN_5
      [] csize = "CS6" -> CH43X_LCR_WORD_LEN_6
      [] csize = "CS7" -> CH43X_LCR_WORD_LEN_7
      [] csize = "CS8" -> CH43X_LCR_WORD_LEN_8
      [] OTHER -> CH43X_LCR_WORD_LEN_8

\* lines 848-850, on the masked c_cflag
ParityType(cflag) ==
    IF "PARENB" \in cflag
    THEN (IF "PARODD" \in cflag THEN 1 ELSE 2)
         + (IF "CMSPAR" \in cflag THEN 2 ELSE 0)
    ELSE 0

\* lines 851-873
ParityLcr(lcr, bParityType) ==
    LET l == Or(lcr, CH43X_LCR_PARITY_BIT)
    IN  CASE bParityType = 1 -> Or(l, CH43X_LCR_ODDPARITY_BIT)
          [] bParityType = 2 -> Or(l, CH43X_LCR_EVENPARITY_BIT)
          [] bParityType = 3 -> Or(l, CH43X_LCR_MARKPARITY_BIT)
          [] bParityType = 4 -> Or(l, CH43X_LCR_SPACEPARITY_BIT)
          [] OTHER -> And(l, Not8(CH43X_LCR_PARITY_BIT))

\* lines 824-877: the line-control byte of a request
TermiosLcr(csize, cflag) ==
    LET c1 == MaskCflag(cflag)
        l == ParityLcr(WordLenLcr(csize), ParityType(c1))
    IN  IF "CSTOPB" \in c1 THEN Or(l, CH43X_LCR_STOPLEN_BIT) ELSE l

\* lines 881-882, without the test of INPCK
RsmInpckAlways(m, iflag) == Or(m, Or(CH43X_LSR_PE_BIT, CH43X_LSR_FE_BIT))

\* lines 881-882
RsmInpck(m, iflag) ==
    IF "INPCK" \in iflag
    THEN Or(m, Or(CH43X_LSR_PE_BIT, CH43X_LSR_FE_BIT)) ELSE m

\* lines 883-884
RsmBrk(m, iflag) ==
    IF iflag \cap {"BRKINT", "PARMRK"} # {} THEN Or(m, CH43X_LSR_BI_BIT) ELSE m

\* lines 880-884, once all three statements are done
ReadStatusMask(iflag) ==
    RsmBrk(RsmInpck(CH43X_LSR_OE_BIT, iflag), iflag)

\* lines 886-891
IgnoreStatusMask(iflag, cflag) ==
    Or(IF "IGNBRK" \in iflag THEN CH43X_LSR_BI_BIT ELSE 0,
       IF "CREAD" \notin cflag THEN CH43X_LSR_BRK_ERROR_MASK ELSE 0)

(***************************************************************************)
(* The fields of a line-control byte, as the register's bit table reads    *)
(* them (lines 109-140).                                                   *)
(***************************************************************************)
LcrWordLen(lcr) == 5 + And(lcr, 3)
LcrStopBits(lcr) == IF Has(lcr, CH43X_LCR_STOPLEN_BIT) THEN 2 ELSE 1
LcrParity(lcr) ==
    IF ~Has(lcr, CH43X_LCR_PARITY_BIT) THEN "none"
    ELSE CASE And(lcr, CH43X_LCR_SPACEPARITY_BIT) = CH43X_LCR_ODDPARITY_BIT -> "odd"
           [] And(lcr, CH43X_LCR_SPACEPARITY_BIT) = CH43X_LCR_EVENPARITY_BIT -> "even"
           [] And(lcr, CH43X_LCR_SPACEPARITY_BIT) = CH43X_LCR_MARKPARITY_BIT -> "mark"
           [] OTHER -> "space"

\* what a termios asks for (the termios convention: CMSPAR with PARODD is mark)
ReqWordLen(csize) ==
    CASE csize = "CS5" -> 5 [] csize = "CS6" -> 6 [] csize = "CS7" -> 7 [] OTHER -> 8
ReqStopBits(cflag) == IF "CSTOPB" \in cflag THEN 2 ELSE 1
ReqParity(cflag) ==
    IF "PARENB" \notin cflag THEN "none"
    ELSE IF "CMSPAR" \in cflag
         THEN (IF "PARODD" \in cflag THEN "mark" ELSE "space")
         ELSE (IF "PARODD" \in cflag THEN "odd" ELSE "even")

(***************************************************************************)
(* ch43x_set_baud: the divisor and the achieved baud.                      *)
(***************************************************************************)
UartClk == CRYSTAL_FREQ * 2
BaudDiv(clk, baud) == (clk \div 16) \div baud
\* line 392 with the low byte in place of the high one
DivHighAsLow(div) == div % 256
\* line 392: (u8)(div / 256), and line 393: div % 256
DivHigh(div) == (div \div 256) % 256
DivLow(div) == div % 256
\* DIV_ROUND_CLOSEST of two unsigned values, d > 0
DIV_ROUND_CLOSEST(x, d) == (x + (d \div 2)) \div d
\* the bounds ch43x_set_termios hands to uart_get_baud_rate (line 911)
BaudMin(clk) == (clk \div 16) \div 65535
BaudMax(clk) == (clk \div 16) * 24

(***************************************************************************)
(* ch43x_handle_rx, lines 489-520: the classification of one received      *)
(* byte with line status lsr.  brk_hook and sysrq_hook are what            *)
(* uart_handle_break and uart_handle_sysrq_char answer.                    *)
(***************************************************************************)
RxErr(lsr) == Has(lsr, CH43X_LSR_BRK_ERROR_MASK)

\* the counter chain of lines 493-503 with the parity test first
RxCounterParityFirst(lsr) ==
    IF ~RxErr(lsr) THEN "none"
    ELSE IF Has(lsr, CH43X_LSR_PE_BIT) THEN "parity"
    ELSE IF Has(lsr, CH43X_LSR_BI_BIT) THEN "brk"
    ELSE IF Has(lsr, CH43X_LSR_FE_BIT) THEN "frame"
    ELSE IF Has(lsr, CH43X_LSR_OE_BIT) THEN "overrun"
    ELSE "none"

\* which counter of port.icount the byte bumps (besides rx)
RxCounter(lsr) ==
    IF ~RxErr(lsr) THEN "none"
    ELSE IF Has(lsr, CH43X_LSR_BI_BIT) THEN "brk"
    ELSE IF Has(lsr, CH43X_LSR_PE_BIT) THEN "parity"
    ELSE IF Has(lsr, CH43X_LSR_FE_BIT) THEN "frame"
    ELSE IF Has(lsr, CH43X_LSR_OE_BIT) THEN "overrun"
    ELSE "none"

\* lsr after lines 493-505
RxMaskedLsr(lsr, read_status_mask) ==
    IF ~RxErr(lsr) THEN lsr
    ELSE And(IF Has(lsr, CH43X_LSR_BI_BIT)
             THEN And(lsr, Not8(Or(CH43X_LSR_FE_BIT, CH43X_LSR_PE_BIT)))
             ELSE lsr,
             read_status_mask)

\* lines 489, 506-511
RxFlag(lsr, read_status_mask) ==
    LET l == RxMaskedLsr(lsr, read_status_mask)
    IN  IF ~RxErr(lsr) THEN "TTY_NORMAL"
        ELSE IF Has(l, CH43X_LSR_BI_BIT) THEN "TTY_BREAK"
        ELSE IF Has(l, CH43X_LSR_PE_BIT) THEN "TTY_PARITY"
        ELSE IF Has(l, CH43X_LSR_FE_BIT) THEN "TTY_FRAME"
        ELSE "TTY_NORMAL"

\* whether the byte reaches uart_insert_char (lines 496-497, 517-519)
RxDelivered(lsr, brk_hook, sysrq_hook) ==
    /\ ~(RxErr(lsr) /\ Has(lsr, CH43X_LSR_BI_BIT) /\ brk_hook)
    /\ ~sysrq_hook

(***************************************************************************)
(* ch43x_handle_tx, lines 552-567: the chunk taken from the transmit ring. *)
(***************************************************************************)
\* the ring's content, one fixed pattern of bytes per slot
XmitBuf(i) == (7 * i + 3) % 256
\* uart_circ_chars_pending
CircPending(head, tail) == (head - tail) % UART_XMIT_SIZE
\* lines 557-558, without the clamp to the FIFO depth
TxToSendUnclamped(head, tail) == CircPending(head, tail)
\* lines 557-558
TxToSend(head, tail) == Min(CircPending(head, tail), CH43X_FIFO_SIZE)
\* lines 564-567: s->buf[0 .. to_send-1]
TxChunk(tail, to_send) ==
    [i \in 1 .. to_send |-> XmitBuf((tail + i - 1) % UART_XMIT_SIZE)]
TxNewTail(tail, to_send) == (tail + to_send) % UART_XMIT_SIZE


(***************************************************************************)
(* The state.                                                              *)
(***************************************************************************)
VARIABLES
    hw,                \* the chip: per channel ier, lcr, mcr, fcr, dll, dlh, spr
    one,               \* struct ch43x_one: mcr_force, rs485, msr_reg
    port,              \* the fields of struct uart_port the driver uses
    buf,               \* s->buf: the controller's transmit scratch buffer
    work,              \* per channel and work item: executions queued
    mutex,             \* s->mutex: its holder
    mutex_bus_access,  \* s->mutex_bus_access: its holder
    pc,                \* where each thread of control stands
    loc,               \* its local variables
    env,               \* what the callers and the device may still do
    obs                \* what has been observed of the run so far

vars == <<hw, one, port, buf, work, mutex, mutex_bus_access, pc, loc, env, obs>>

WorkNames == {"tx_work", "md_work", "stop_rx_work", "stop_tx_work"}
Workers == WorkNames \X Ports
Callers == {"uart"} \X Ports
Ist == <<"ist", 0>>
Procs == Workers \cup Callers \cup {Ist}
NoOne == <<"none", 0>>

NoTermios == [csize |-> "CS8", cflag |-> {}, iflag |-> {}, baud |-> 0]
LocInit ==
    [tmp |-> 0, lsr |-> 0, iir |-> 0, line |-> 0, div |-> 0, arg |-> 0,
     tm |-> NoTermios]

\* the bus transactions of a ch43x_set_baud call, none made yet
NoSetBaud == [log |-> <<>>, done |-> FALSE, div |-> 0]
\* one more of them
SbLog(o, c, op, reg, val) ==
    [o EXCEPT !.sb[c].log = Append(@, [op |-> op, reg |-> reg, val |-> val])]

NoRs485 == [flags |-> 0, delay_rts_before_send |-> 0, delay_rts_after_send |-> 0]

(***************************************************************************)
(* The chip's register file.  With LCR[7] set, registers 0 and 1 are the   *)
(* divisor latches (lines 77-79).  LSR, IIR, MSR and RHR are the device's  *)
(* to answer; a read of them takes its value from the device.              *)
(***************************************************************************)
Dlab(h, c) == Has(h[c].lcr, CH43X_LCR_DLAB_BIT)

HwWrite(h, c, reg, val) ==
    CASE reg = CH43X_THR_REG ->
             IF Dlab(h, c) THEN [h EXCEPT ![c].dll = val % 256] ELSE h
      [] reg = CH43X_IER_REG ->
             IF Dlab(h, c) THEN [h EXCEPT ![c].dlh = val % 256]
             ELSE [h EXCEPT ![c].ier = val % 256]
      [] reg = CH43X_FCR_REG -> [h EXCEPT ![c].fcr = val % 256]
      [] reg = CH43X_LCR_REG -> [h EXCEPT ![c].lcr = val % 256]
      [] reg = CH43X_MCR_REG -> [h EXCEPT ![c].mcr = val % 256]
      [] reg = CH43X_SPR_REG -> [h EXCEPT ![c].spr = val % 256]
      [] OTHER -> h

HwRead(h, c, reg) ==
    CASE reg = CH43X_IER_REG -> IF Dlab(h, c) THEN h[c].dlh ELSE h[c].ier
      [] reg = CH43X_LCR_REG -> h[c].lcr
      [] reg = CH43X_MCR_REG -> h[c].mcr
      [] reg = CH43X_SPR_REG -> h[c].spr
      [] OTHER -> 0

\* ch43x_port_update: tmp &= ~mask; tmp |= val & mask
UpdateVal(tmp, mask, val) == Or(And(tmp, Not8(mask)), And(val, mask))

(***************************************************************************)
(* Work items (the kernel's workqueue, as the driver calls it).            *)
(* schedule_work queues an execution unless one is already pending; the    *)
(* pending mark is cleared when the worker takes the item, before the body *)
(* runs, and the same item never runs on two workers at once.              *)
(***************************************************************************)
work_pending(wk, c, w) == wk[c][w] > 0

schedule_work_always(wk, c, w) == [wk EXCEPT ![c][w] = @ + 1]

schedule_work(wk, c, w) ==
    IF work_pending(wk, c, w) THEN wk ELSE [wk EXCEPT ![c][w] = 1]

\* the first statement of each work function
WorkEntry(w) ==
    CASE w = "tx_work" -> "wq_lock"
      [] w = "md_work" -> "md_compose"
      [] w = "stop_rx_work" -> "srx_lock"
      [] w = "stop_tx_work" -> "stx_lock"

(***************************************************************************)
(* Observations.  A register transaction of a worker of channel c after    *)
(* c's teardown is noted in obs.late.                                      *)
(***************************************************************************)
NoteBus(o, p) ==
    IF p \in Workers /\ o.torn[p[2]] THEN [o EXCEPT !.late[p[2]] = TRUE] ELSE o

(***************************************************************************)
(* The building blocks of a thread's steps.                                *)
(***************************************************************************)
\* the labels at which the next statement is a bus transaction
BusLabels ==
    {"wq_ier_rd", "wq_ier_wr", "md_wr",
     "srx_rdi_rd", "srx_rdi_wr", "srx_rlsi_rd", "srx_rlsi_wr",
     "stx_lsr", "stx_ier_rd", "stx_ier_wr",
     "su_pw_rd", "su_pw_wr", "su_fcr_reset", "su_fcr_enable", "su_lcr",
     "su_ier_rd", "su_ier_wr", "su_mcr",
     "sd_ier", "sd_mcr", "sd_pw_rd", "sd_pw_wr",
     "pm_rd", "pm_wr",
     "st_lcr", "st_mcr_rd", "st_mcr_wr",
     "sb_lcr_rd", "sb_lcr_dlab", "sb_dlh", "sb_dll", "sb_lcr_restore",
     "irq_lsr", "irq_iir", "irq_msr",
     "rx_lsr_first", "rx_rhr_forced", "rx_poll", "rx_rhr", "rx_lsr_next",
     "tx_xchar", "tx_ier_rd", "tx_ier_wr", "tx_raw"}

\* mutex_lock(&s->mutex_bus_access) in ch43x_port_read, ch43x_port_write,
\* ch43x_raw_write
LockBus(p) ==
    /\ pc[p] \in BusLabels
    /\ mutex_bus_access = NoOne
    /\ mutex_bus_access' = p
    /\ UNCHANGED <<buf, hw, one, port, work, mutex, pc, loc, env, obs>>

\* the transfer and mutex_unlock(&s->mutex_bus_access)
InBus(p, l) == pc[p] = l /\ mutex_bus_access = p
Goto(p, l) == pc' = [pc EXCEPT ![p] = l]
Return(p) ==
    /\ pc' = [pc EXCEPT ![p] = "idle"]
    /\ loc' = [loc EXCEPT ![p] = LocInit]

\* ch43x_port_read of a register the chip stores, into tmp
PortRead(p, from, to, c, reg) ==
    /\ InBus(p, from)
    /\ mutex_bus_access' = NoOne
    /\ loc' = [loc EXCEPT ![p].tmp = HwRead(hw, c, reg)]
    /\ Goto(p, to)
    /\ obs' = NoteBus(obs, p)
    /\ UNCHANGED <<buf, hw, one, port, work, mutex, env>>

\* ch43x_port_write; o is what the step adds to the observations
PortWrite(p, from, to, c, reg, val, o) ==
    /\ InBus(p, from)
    /\ mutex_bus_access' = NoOne
    /\ hw' = HwWrite(hw, c, reg, val)
    /\ Goto(p, to)
    /\ obs' = NoteBus(o, p)
    /\ UNCHANGED <<buf, one, port, work, mutex, loc, env>>

\* mutex_lock(&s->mutex) and mutex_unlock(&s->mutex)
LockMutex(p, from, to) ==
    /\ pc[p] = from
    /\ mutex = NoOne
    /\ mutex' = p
    /\ Goto(p, to)
    /\ UNCHANGED <<buf, hw, one, port, work, mutex_bus_access, loc, env, obs>>

UnlockMutexReturn(p, from) ==
    /\ pc[p] = from
    /\ mutex' = NoOne
    /\ Return(p)
    /\ UNCHANGED <<buf, hw, one, port, work, mutex_bus_access, env, obs>>

(***************************************************************************)
(* The worker takes a queued work item and starts its function.            *)
(***************************************************************************)
WorkRun(c, w) ==
    LET p == <<w, c>>
    IN  /\ pc[p] = "idle"
        /\ work_pending(work, c, w)
        /\ work' = [work EXCEPT ![c][w] = @ - 1]
        /\ Goto(p, WorkEntry(w))
        /\ obs' = [obs EXCEPT !.batch[c][w] = 0, !.runs[c][w] = @ + 1,
                              !.took[c][w] = obs.batch[c][w]]
        /\ UNCHANGED <<buf, hw, one, port, mutex, mutex_bus_access, loc, env>>

(***************************************************************************)
(* ch43x_wq_proc (tx_work): enable the TX-ready interrupt.                 *)
(***************************************************************************)
ch43x_wq_proc(c) ==
    LET p == <<"tx_work", c>>
    IN  \/ LockMutex(p, "wq_lock", "wq_ier_rd")
        \/ PortRead(p, "wq_ier_rd", "wq_ier_wr", c, CH43X_IER_REG)
        \/ PortWrite(p, "wq_ier_wr", "wq_unlock", c, CH43X_IER_REG,
                     UpdateVal(loc[p].tmp, CH43X_IER_THRI_BIT, CH43X_IER_THRI_BIT),
                     obs)
        \/ UnlockMutexReturn(p, "wq_unlock")

(***************************************************************************)
(* ch43x_stop_rx_work_proc.                                                *)
(***************************************************************************)
\* line 700, clearing the overrun bit
StopRxMaskOverrun(m) == And(m, Not8(CH43X_LSR_OE_BIT))

\* line 700: read_status_mask &= ~CH43X_LSR_DR_BIT
StopRxMask(m) == And(m, Not8(CH43X_LSR_DR_BIT))

ch43x_stop_rx_work_proc(c) ==
    LET p == <<"stop_rx_work", c>>
    IN  \/ /\ pc[p] = "srx_lock"
           /\ mutex = NoOne
           /\ mutex' = p
           /\ port' = [port EXCEPT ![c].read_status_mask = StopRxMask(@)]
           /\ Goto(p, "srx_rdi_rd")
           /\ UNCHANGED <<buf, hw, one, work, mutex_bus_access, loc, env, obs>>
        \/ PortRead(p, "srx_rdi_rd", "srx_rdi_wr", c, CH43X_IER_REG)
        \/ PortWrite(p, "srx_rdi_wr", "srx_rlsi_rd", c, CH43X_IER_REG,
                     UpdateVal(loc[p].tmp, CH43X_IER_RDI_BIT, 0), obs)
        \/ PortRead(p, "srx_rlsi_rd", "srx_rlsi_wr", c, CH43X_IER_REG)
        \/ PortWrite(p, "srx_rlsi_wr", "srx_unlock", c, CH43X_IER_REG,
                     UpdateVal(loc[p].tmp, CH43X_IER_RLSI_BIT, 0), obs)
        \/ UnlockMutexReturn(p, "srx_unlock")

(***************************************************************************)
(* ch43x_stop_tx_work_proc.  The value the device answers for LSR is drawn *)
(* from lsrs.                                                              *)
(***************************************************************************)
uart_circ_empty(pt) == pt.head = pt.tail
\* the tty stopped output, or CTS did
uart_tx_stopped(pt) == pt.stopped \/ pt.hw_stopped

\* lines 718-721: the transmitter is still busy, give up
stx_abort_keep(p) ==
    /\ pc[p] = "stx_abort"
    /\ Return(p)
    /\ UNCHANGED <<buf, hw, one, port, work, mutex, mutex_bus_access, env, obs>>

stx_abort(p) == UnlockMutexReturn(p, "stx_abort")

\* line 722, without the emptiness test
stx_delay_due_always(c) == one[c].rs485.delay_rts_after_send > 0

\* line 722
stx_delay_due(c) ==
    uart_circ_empty(port[c]) /\ one[c].rs485.delay_rts_after_send > 0

ch43x_stop_tx_work_proc(c, lsrs) ==
    LET p == <<"stop_tx_work", c>>
        enabled == Has(one[c].rs485.flags, SER_RS485_ENABLED)
    IN  \/ /\ pc[p] = "stx_lock"
           /\ mutex = NoOne
           /\ mutex' = p
           /\ Goto(p, IF enabled THEN "stx_lsr" ELSE "stx_ier_rd")
           /\ obs' = [obs EXCEPT !.stx[c] =
                          [rs485 |-> enabled, temt |-> "unread", delays |-> 0,
                           wrote |-> FALSE, empty |-> FALSE, delay |-> 0,
                           ier0 |-> hw[c].ier, prev |-> @.temt]]
           /\ UNCHANGED <<buf, hw, one, port, work, mutex_bus_access, loc, env>>
        \/ \E lsr \in lsrs :
               /\ InBus(p, "stx_lsr")
               /\ mutex_bus_access' = NoOne
               /\ loc' = [loc EXCEPT ![p].lsr = lsr]
               /\ Goto(p, IF ~Has(lsr, CH43X_LSR_TEMT_BIT) THEN "stx_abort"
                          ELSE IF stx_delay_due(c) THEN "stx_delay"
                          ELSE "stx_ier_rd")
               /\ obs' = NoteBus([obs EXCEPT
                              !.stx[c].temt =
                                  IF Has(lsr, CH43X_LSR_TEMT_BIT) THEN "yes" ELSE "no",
                              !.stx[c].empty = uart_circ_empty(port[c]),
                              !.stx[c].delay =
                                  one[c].rs485.delay_rts_after_send], p)
               /\ UNCHANGED <<buf, hw, one, port, work, mutex, env>>
        \/ stx_abort(p)
        \/ /\ pc[p] = "stx_delay"
           /\ Goto(p, "stx_ier_rd")
           /\ obs' = [obs EXCEPT !.stx[c].delays = @ + 1]
           /\ UNCHANGED <<buf, hw, one, port, work, mutex, mutex_bus_access, loc, env>>
        \/ PortRead(p, "stx_ier_rd", "stx_ier_wr", c, CH43X_IER_REG)
        \/ PortWrite(p, "stx_ier_wr", "stx_unlock", c, CH43X_IER_REG,
                     UpdateVal(loc[p].tmp, CH43X_IER_THRI_BIT, 0),
                     [obs EXCEPT !.stx[c].wrote = TRUE])
        \/ UnlockMutexReturn(p, "stx_unlock")

(***************************************************************************)
(* ch43x_md_proc: no lock but the bus lock of its one write.               *)
(***************************************************************************)
ch43x_md_proc(c) ==
    LET p == <<"md_work", c>>
    IN  \/ /\ pc[p] = "md_compose"
           /\ loc' = [loc EXCEPT ![p].tmp = MdMcr(port[c].mctrl, one[c].mcr_force)]
           /\ Goto(p, "md_wr")
           /\ obs' = [obs EXCEPT !.md[c].mctrl = port[c].mctrl]
           /\ UNCHANGED <<buf, hw, one, port, work, mutex, mutex_bus_access, env>>
        \/ /\ InBus(p, "md_wr")
           /\ mutex_bus_access' = NoOne
           /\ hw' = HwWrite(hw, c, CH43X_MCR_REG, loc[p].tmp)
           /\ Return(p)
           /\ obs' = NoteBus([obs EXCEPT !.md[c].val = loc[p].tmp,
                                         !.md[c].force = one[c].mcr_force], p)
           /\ UNCHANGED <<buf, one, port, work, mutex, env>>

(***************************************************************************)
(* The hooks that only schedule: ch43x_start_tx, ch43x_stop_tx,            *)
(* ch43x_stop_rx, ch43x_set_mctrl.  The serial core calls them on an open  *)
(* port, under the port's spinlock; port.mctrl is set by the core before   *)
(* it calls set_mctrl.                                                     *)
(***************************************************************************)
Request(c, w, wk) ==
    /\ env.open[c]
    /\ env.reqs > 0
    /\ env' = [env EXCEPT !.reqs = @ - 1]
    /\ work' = wk
    /\ obs' = [obs EXCEPT !.batch[c][w] = @ + 1,
                          !.batches[c][w] = IF obs.batch[c][w] = 0 THEN @ + 1 ELSE @,
                          !.txreqs[c] = IF w \in {"tx_work", "stop_tx_work"}
                                        THEN Append(@, w) ELSE @]
    /\ UNCHANGED <<hw, one, mutex, mutex_bus_access, pc, loc>>

ch43x_start_tx(c) ==
    /\ Request(c, "tx_work",
               IF ~work_pending(work, c, "tx_work")
               THEN schedule_work(work, c, "tx_work") ELSE work)
    /\ UNCHANGED <<port, buf>>

ch43x_stop_tx(c) ==
    /\ Request(c, "stop_tx_work", schedule_work(work, c, "stop_tx_work"))
    /\ UNCHANGED <<port, buf>>

ch43x_stop_rx(c) ==
    /\ Request(c, "stop_rx_work", schedule_work(work, c, "stop_rx_work"))
    /\ UNCHANGED <<port, buf>>

ch43x_set_mctrl(c, mctrls) ==
    \E m \in mctrls :
        /\ Request(c, "md_work", schedule_work(work, c, "md_work"))
        /\ port' = [port EXCEPT ![c].mctrl = m]
        /\ UNCHANGED buf

(***************************************************************************)
(* The serial core's calls on a port: one at a time per port (the core     *)
(* holds the port's mutex), each from "idle" back to "idle".               *)
(***************************************************************************)
Call(c, l) ==
    /\ pc[<<"uart", c>>] = "idle"
    /\ env.calls > 0
    /\ env' = [env EXCEPT !.calls = @ - 1]
    /\ Goto(<<"uart", c>>, l)

\* the first register write of ch43x_shutdown: what was outstanding then
Teardown(o, c) ==
    IF o.torn[c] THEN o
    ELSE [o EXCEPT !.torn[c] = TRUE,
                   !.sdpend[c] = \E w \in WorkNames :
                                     \/ work_pending(work, c, w)
                                     \/ pc[<<w, c>>] # "idle"]

(***************************************************************************)
(* ch43x_startup.  ch43x_power updates the IER of channel 0, whatever the  *)
(* port (line 366).                                                        *)
(***************************************************************************)
ch43x_startup(c) ==
    LET p == <<"uart", c>>
    IN  \/ /\ Call(c, "su_pw_rd")
           /\ ~env.open[c]
           /\ obs' = [obs EXCEPT !.torn[c] = FALSE, !.sdpend[c] = FALSE]
           /\ UNCHANGED <<buf, hw, one, port, work, mutex, mutex_bus_access, loc>>
        \/ PortRead(p, "su_pw_rd", "su_pw_wr", 0, CH43X_IER_REG)
        \/ PortWrite(p, "su_pw_wr", "su_fcr_reset", 0, CH43X_IER_REG,
                     UpdateVal(loc[p].tmp, CH43X_IER_SLEEP_BIT, 0), obs)
        \/ PortWrite(p, "su_fcr_reset", "su_fcr_enable", c, CH43X_FCR_REG,
                     Or(CH43X_FCR_RXRESET_BIT, CH43X_FCR_TXRESET_BIT), obs)
        \/ PortWrite(p, "su_fcr_enable", "su_lcr", c, CH43X_FCR_REG,
                     Or(CH43X_FCR_RXLVLH_BIT, CH43X_FCR_FIFO_BIT), obs)
        \/ PortWrite(p, "su_lcr", "su_ier_rd", c, CH43X_LCR_REG,
                     CH43X_LCR_WORD_LEN_8, obs)
        \/ PortRead(p, "su_ier_rd", "su_ier_wr", c, CH43X_IER_REG)
        \/ PortWrite(p, "su_ier_wr", "su_mcr", c, CH43X_IER_REG,
                     Or(loc[p].tmp, Or(CH43X_IER_RDI_BIT,
                                       Or(CH43X_IER_RLSI_BIT, CH43X_IER_MSI_BIT))),
                     obs)
        \/ PortWrite(p, "su_mcr", "su_force", c, CH43X_MCR_REG, CH43X_MCR_OUT2, obs)
        \/ /\ pc[p] = "su_force"
           /\ one' = [one EXCEPT ![c].mcr_force = CH43X_MCR_OUT2]
           /\ env' = [env EXCEPT !.open[c] = TRUE]
           /\ Return(p)
           /\ UNCHANGED <<buf, hw, port, work, mutex, mutex_bus_access, obs>>

(***************************************************************************)
(* ch43x_shutdown.                                                         *)
(***************************************************************************)
ch43x_shutdown(c) ==
    LET p == <<"uart", c>>
    IN  \/ /\ Call(c, IF c = 0 THEN "sd_ier" ELSE "sd_mcr")
           /\ env.open[c]
           /\ UNCHANGED <<buf, hw, one, port, work, mutex, mutex_bus_access, loc, obs>>
        \/ PortWrite(p, "sd_ier", "sd_mcr", c, CH43X_IER_REG, 0, Teardown(obs, c))
        \/ PortWrite(p, "sd_mcr", "sd_force", c, CH43X_MCR_REG, 0, Teardown(obs, c))
        \/ /\ pc[p] = "sd_force"
           /\ one' = [one EXCEPT ![c].mcr_force = 0]
           /\ Goto(p, "sd_pw_rd")
           /\ UNCHANGED <<buf, hw, port, work, mutex, mutex_bus_access, loc, env, obs>>
        \/ PortRead(p, "sd_pw_rd", "sd_pw_wr", 0, CH43X_IER_REG)
        \/ /\ InBus(p, "sd_pw_wr")
           /\ mutex_bus_access' = NoOne
           /\ hw' = HwWrite(hw, 0, CH43X_IER_REG,
                            UpdateVal(loc[p].tmp, CH43X_IER_SLEEP_BIT,
                                      CH43X_IER_SLEEP_BIT))
           /\ env' = [env EXCEPT !.open[c] = FALSE]
           /\ Return(p)
           /\ UNCHANGED <<buf, one, port, work, mutex, obs>>

(***************************************************************************)
(* ch43x_pm: ch43x_power(port, state == UART_PM_STATE_ON).                 *)
(***************************************************************************)
ch43x_pm(c) ==
    LET p == <<"uart", c>>
    IN  \/ \E on \in {0, 1} :
               /\ Call(c, "pm_rd")
               /\ loc' = [loc EXCEPT ![p].arg = on]
               /\ UNCHANGED <<buf, hw, one, port, work, mutex, mutex_bus_access, obs>>
        \/ PortRead(p, "pm_rd", "pm_wr", 0, CH43X_IER_REG)
        \/ /\ InBus(p, "pm_wr")
           /\ mutex_bus_access' = NoOne
           /\ hw' = HwWrite(hw, 0, CH43X_IER_REG,
                            UpdateVal(loc[p].tmp, CH43X_IER_SLEEP_BIT,
                                      IF loc[p].arg = 1 THEN 0
                                      ELSE CH43X_IER_SLEEP_BIT))
           /\ Return(p)
           /\ UNCHANGED <<buf, one, port, work, mutex, env, obs>>

(***************************************************************************)
(* ch43x_set_termios, with ch43x_set_baud at its end.  The request is      *)
(* drawn from tms; uart_get_baud_rate hands back the requested baud, which *)
(* lies within the bounds the driver gives it.                             *)
(***************************************************************************)
\* lines 897-908: the MCR update and the forced bits
FlowMcr(tmp, cflag) ==
    IF "CRTSCTS" \in cflag
    THEN UpdateVal(tmp, Or(CH43X_MCR_AFE, CH43X_MCR_RTS_BIT),
                   Or(CH43X_MCR_AFE, CH43X_MCR_RTS_BIT))
    ELSE UpdateVal(tmp, CH43X_MCR_AFE, 0)

FlowForce(mcr_force, cflag) ==
    IF "CRTSCTS" \in cflag
    THEN Or(mcr_force, Or(CH43X_MCR_AFE, CH43X_MCR_RTS_BIT))
    ELSE And(mcr_force, Not8(Or(CH43X_MCR_AFE, CH43X_MCR_RTS_BIT)))

\* line 398 with div = 0 divides by zero: the build either traps (the
\* calling task dies in the kernel) or, where the divide instruction does
\* not trap, carries on with 0
BaudOutcomes(div) ==
    IF div = 0
    THEN {[ok |-> FALSE, val |-> 0], [ok |-> TRUE, val |-> 0]}
    ELSE {[ok |-> TRUE, val |-> DIV_ROUND_CLOSEST(UartClk \div 16, div)]}

\* uart_handle_cts_change(port, 1), line 903: count the change; output
\* that CTS had stopped is restarted (ch43x_start_tx)
CtsChange(pt) == [pt EXCEPT !.icount.cts = @ + 1, !.hw_stopped = FALSE]

ch43x_set_termios(c, tms) ==
    LET p == <<"uart", c>>
        tm == loc[p].tm
    IN  \/ \E t \in tms :
               /\ Call(c, "st_rsm_inpck")
               /\ env.open[c]
               /\ loc' = [loc EXCEPT ![p].tm = [t EXCEPT !.cflag = MaskCflag(@)]]
               /\ port' = [port EXCEPT ![c].read_status_mask = CH43X_LSR_OE_BIT]
               /\ obs' = [obs EXCEPT !.cfg[c] = [req |-> t, lcr |-> -1],
                                     !.baud[c] = [req |-> 0, div |-> 0,
                                                  ok |-> TRUE, val |-> 0],
                                     !.sb[c] = NoSetBaud]
               /\ UNCHANGED <<buf, hw, one, work, mutex, mutex_bus_access>>
        \* lines 881-882
        \/ /\ pc[p] = "st_rsm_inpck"
           /\ port' = [port EXCEPT ![c].read_status_mask = RsmInpck(@, tm.iflag)]
           /\ Goto(p, "st_rsm_brk")
           /\ UNCHANGED <<buf, hw, one, work, mutex, mutex_bus_access, loc, env, obs>>
        \* lines 883-891
        \/ /\ pc[p] = "st_rsm_brk"
           /\ port' = [port EXCEPT
                  ![c].read_status_mask = RsmBrk(@, tm.iflag),
                  ![c].ignore_status_mask = IgnoreStatusMask(tm.iflag, tm.cflag)]
           /\ Goto(p, "st_lcr")
           /\ UNCHANGED <<buf, hw, one, work, mutex, mutex_bus_access, loc, env, obs>>
        \/ PortWrite(p, "st_lcr", "st_mcr_rd", c, CH43X_LCR_REG,
                     TermiosLcr(tm.csize, tm.cflag),
                     [obs EXCEPT !.cfg[c].lcr = TermiosLcr(tm.csize, tm.cflag)])
        \/ PortRead(p, "st_mcr_rd", "st_mcr_wr", c, CH43X_MCR_REG)
        \/ PortWrite(p, "st_mcr_wr", "st_force", c, CH43X_MCR_REG,
                     FlowMcr(loc[p].tmp, tm.cflag), obs)
        \* lines 901-903 and 907, 911
        \/ /\ pc[p] = "st_force"
           /\ one' = [one EXCEPT ![c].mcr_force = FlowForce(@, tm.cflag)]
           /\ loc' = [loc EXCEPT ![p].div = BaudDiv(UartClk, tm.baud)]
           /\ Goto(p, "sb_lcr_rd")
           /\ port' = IF "CRTSCTS" \in tm.cflag
                      THEN [port EXCEPT ![c] = CtsChange(@)] ELSE port
           /\ work' = IF "CRTSCTS" \in tm.cflag /\ port[c].hw_stopped
                         /\ ~work_pending(work, c, "tx_work")
                      THEN schedule_work(work, c, "tx_work") ELSE work
           /\ obs' = [obs EXCEPT !.sb[c] =
                          [NoSetBaud EXCEPT !.div = BaudDiv(UartClk, tm.baud)]]
           /\ UNCHANGED <<buf, hw, mutex, mutex_bus_access, env>>
        \* line 386
        \/ /\ InBus(p, "sb_lcr_rd")
           /\ mutex_bus_access' = NoOne
           /\ loc' = [loc EXCEPT ![p].tmp = HwRead(hw, c, CH43X_LCR_REG)]
           /\ Goto(p, "sb_lcr_dlab")
           /\ obs' = SbLog(obs, c, "read", CH43X_LCR_REG,
                           HwRead(hw, c, CH43X_LCR_REG))
           /\ UNCHANGED <<buf, hw, one, port, work, mutex, env>>
        \* lines 389-393
        \/ PortWrite(p, "sb_lcr_dlab", "sb_dlh", c, CH43X_LCR_REG,
                     CH43X_LCR_CONF_MODE_A,
                     SbLog(obs, c, "write", CH43X_LCR_REG, CH43X_LCR_CONF_MODE_A))
        \/ PortWrite(p, "sb_dlh", "sb_dll", c, CH43X_DLH_REG,
                     DivHigh(loc[p].div),
                     SbLog(obs, c, "write", CH43X_DLH_REG, DivHigh(loc[p].div)))
        \/ PortWrite(p, "sb_dll", "sb_lcr_restore", c, CH43X_DLL_REG,
                     DivLow(loc[p].div),
                     SbLog(obs, c, "write", CH43X_DLL_REG, DivLow(loc[p].div)))
        \* lines 396-398
        \/ \E r \in BaudOutcomes(loc[p].div) :
               /\ InBus(p, "sb_lcr_restore")
               /\ mutex_bus_access' = NoOne
               /\ hw' = HwWrite(hw, c, CH43X_LCR_REG, loc[p].tmp)
               /\ IF r.ok THEN Return(p)
                  ELSE /\ Goto(p, "oops")
                       /\ loc' = [loc EXCEPT ![p] = LocInit]
               /\ obs' = [obs EXCEPT
                      !.baud[c] = [req |-> tm.baud, div |-> loc[p].div,
                                   ok |-> r.ok, val |-> r.val],
                      !.sb[c].log =
                          Append(@, [op |-> "write", reg |-> CH43X_LCR_REG,
                                     val |-> loc[p].tmp]),
                      !.sb[c].done = r.ok]
               /\ UNCHANGED <<buf, one, port, work, mutex, env>>

(***************************************************************************)
(* ch43x_ioctl and ch43x_config_rs485.  fault is whether the copy from or  *)
(* to the caller fails.                                                    *)
(***************************************************************************)
\* line 924, storing into both channels
ch43x_config_rs485_all(o, c, rs) == [d \in Ports |-> [o[d] EXCEPT !.rs485 = rs]]

\* line 924: one->rs485 = *rs485
ch43x_config_rs485(o, c, rs) == [o EXCEPT ![c].rs485 = rs]

\* lines 939-943, without the test of copy_from_user
Rs485CopiedUnchecked(cmd, fault) == cmd = "IOCTL_CMD_SRS485"

\* lines 939-943: ch43x_config_rs485 is reached
Rs485Copied(cmd, fault) == cmd = "IOCTL_CMD_SRS485" /\ ~fault

\* lines 940-953: the value returned
IoctlRet(cmd, fault) ==
    IF cmd \notin {"IOCTL_CMD_SRS485", "IOCTL_CMD_GRS485"} THEN "ENOIOCTLCMD"
    ELSE IF fault THEN "EFAULT" ELSE "0"

ch43x_ioctl(c, cmds, rss, faults) ==
    \E cmd \in cmds, rs \in rss, fault \in faults :
        /\ pc[<<"uart", c>>] = "idle"
        /\ env.open[c]
        /\ env.calls > 0
        /\ env' = [env EXCEPT !.calls = @ - 1]
        /\ one' = IF Rs485Copied(cmd, fault)
                  THEN ch43x_config_rs485(one, c, rs) ELSE one
        /\ obs' = [obs EXCEPT !.ioctl[c] =
               [cmd |-> cmd, arg |-> rs, fault |-> fault,
                before |-> one[c].rs485,
                out |-> IF cmd = "IOCTL_CMD_GRS485" /\ ~fault
                        THEN one[c].rs485 ELSE NoRs485,
                ret |-> IoctlRet(cmd, fault),
                n |-> @.n + 1,
                set |-> IF cmd = "IOCTL_CMD_SRS485" /\ ~fault THEN rs ELSE @.set]]
        /\ UNCHANGED <<buf, hw, port, work, mutex, mutex_bus_access, pc, loc>>

(***************************************************************************)
(* ch43x_handle_tx, called by ch43x_port_irq with s->mutex held.           *)
(***************************************************************************)
\* lines 552-571: what the chunk step leaves in the port and in s->buf
TxTake(pt) ==
    LET n == TxToSend(pt.head, pt.tail)
    IN  [pt EXCEPT !.icount.tx = @ + n, !.tail = TxNewTail(pt.tail, n)]

\* lines 538 and 545, without the test of x_char
TxPathNoXchar(pt) ==
    IF uart_circ_empty(pt) \/ uart_tx_stopped(pt) THEN "tx_ier_rd" ELSE "tx_raw"

\* lines 538 and 545: which of the three ways the drain goes
TxPath(pt) ==
    IF pt.x_char # 0 THEN "tx_xchar"
    ELSE IF uart_circ_empty(pt) \/ uart_tx_stopped(pt) THEN "tx_ier_rd"
    ELSE "tx_raw"

\* what a drain finds at its entry
TxdEntry(o, c, pt) ==
    [o EXCEPT !.txd[c] =
        [x |-> pt.x_char, empty |-> pt.head = pt.tail,
         stopped |-> pt.stopped \/ pt.hw_stopped,
         tail0 |-> pt.tail, tx0 |-> pt.icount.tx, wrote |-> 0, byte |-> -1,
         prevx |-> @.x]]

ch43x_handle_tx(c) ==
    LET p == Ist
        pt == port[c]
    IN  \* lines 538, 545, 553-567: which way, and the copy into s->buf
        \/ /\ pc[p] = "tx_entry"
           /\ Goto(p, TxPath(pt))
           /\ IF TxPath(pt) # "tx_raw"
              THEN /\ obs' = TxdEntry(obs, c, pt)
                   /\ UNCHANGED <<port, buf, loc>>
              ELSE /\ port' = [port EXCEPT ![c] = TxTake(pt)]
                   /\ buf' = TxChunk(pt.tail, TxToSend(pt.head, pt.tail))
                   /\ loc' = [loc EXCEPT ![p].tmp = TxToSend(pt.head, pt.tail)]
                   /\ obs' = [TxdEntry(obs, c, pt) EXCEPT !.tx[c] =
                                  [pend |-> CircPending(pt.head, pt.tail),
                                   tail0 |-> pt.tail, sent |-> FALSE]]
           /\ UNCHANGED <<hw, one, work, mutex, mutex_bus_access, env>>
        \* lines 539-542
        \/ /\ InBus(p, "tx_xchar")
           /\ mutex_bus_access' = NoOne
           /\ hw' = HwWrite(hw, c, CH43X_THR_REG, pt.x_char)
           /\ port' = [port EXCEPT ![c].icount.tx = @ + 1, ![c].x_char = 0]
           /\ Goto(p, "irq_tx_unlock")
           /\ obs' = [obs EXCEPT
                  !.thr[c] = IF Dlab(hw, c) THEN @ ELSE Append(@, <<pt.x_char>>),
                  !.txd[c].wrote = @ + 1,
                  !.txd[c].byte = pt.x_char]
           /\ UNCHANGED <<buf, one, work, mutex, loc, env>>
        \* line 548
        \/ PortRead(p, "tx_ier_rd", "tx_ier_wr", c, CH43X_IER_REG)
        \/ PortWrite(p, "tx_ier_wr", "irq_tx_unlock", c, CH43X_IER_REG,
                     UpdateVal(loc[p].tmp, CH43X_IER_THRI_BIT, 0), obs)
        \* line 570: ch43x_raw_write of s->buf[0 .. to_send-1]
        \/ /\ InBus(p, "tx_raw")
           /\ mutex_bus_access' = NoOne
           /\ hw' = IF loc[p].tmp = 0 THEN hw
                    ELSE HwWrite(hw, c, CH43X_THR_REG, buf[loc[p].tmp])
           /\ Goto(p, "irq_tx_unlock")
           /\ obs' = [obs EXCEPT
                  !.thr[c] = IF Dlab(hw, c) THEN @
                             ELSE Append(@, SubSeq(buf, 1, loc[p].tmp)),
                  !.tx[c].sent = TRUE,
                  !.txd[c].wrote = @ + loc[p].tmp]
           /\ UNCHANGED <<buf, one, port, work, mutex, loc, env>>

(***************************************************************************)
(* ch43x_handle_rx.  The device's answers for LSR are drawn from lsrs, the *)
(* received bytes from chars; it shows data ready only while it has bytes  *)
(* left to hand over (env.rx).                                             *)
(***************************************************************************)
LsrAnswers(lsrs) ==
    {v \in lsrs : Has(v, CH43X_LSR_DR_BIT) => env.rx > 0}

\* lines 489-520 for the byte ch read with line status lsr
RxByte(c, lsr, ch, brk_hook, sysrq_hook) ==
    LET pt == port[c]
        k == RxCounter(lsr)
        ic == [pt.icount EXCEPT !.rx = @ + 1]
        given == RxDelivered(lsr, brk_hook, sysrq_hook)
        masked == IF RxErr(lsr) /\ Has(lsr, CH43X_LSR_BI_BIT) /\ brk_hook
                  THEN And(lsr, Not8(Or(CH43X_LSR_FE_BIT, CH43X_LSR_PE_BIT)))
                  ELSE RxMaskedLsr(lsr, pt.read_status_mask)
    IN  /\ port' = [port EXCEPT ![c].icount =
                        IF k = "none" THEN ic ELSE [ic EXCEPT ![k] = @ + 1]]
        /\ obs' = [obs EXCEPT !.rx[c] =
               [n |-> @.n + 1, lsr |-> lsr, ch |-> ch,
                mask |-> pt.read_status_mask,
                iflag |-> obs.cfg[c].req.iflag,
                before |-> pt.icount,
                delivered |-> given,
                flag |-> RxFlag(lsr, pt.read_status_mask),
                status |-> masked,
                counted |-> k],
                              !.drain[c] =
               IF pc[Ist] = "rx_rhr_forced" \/ @.done
               THEN [forced |-> pc[Ist] = "rx_rhr_forced", reads |-> 1,
                     more |-> 0, done |-> FALSE, lsr1 |-> lsr,
                     rx0 |-> pt.icount.rx, flips0 |-> obs.flips[c]]
               ELSE [@ EXCEPT !.reads = @ + 1]]

\* line 526, leaving the loop whatever the line status
RxNextStop(lsr) == "irq_lsr"

\* line 526: while (lsr & CH43X_LSR_DR_BIT), then lines 528-529
RxNext(lsr) == IF Has(lsr, CH43X_LSR_DR_BIT) THEN "rx_rhr" ELSE "irq_lsr"

ch43x_handle_rx(c, lsrs, chars) ==
    LET p == Ist
    IN  \* lines 464-468
        \/ \E v \in LsrAnswers(lsrs) :
               /\ InBus(p, "rx_lsr_first")
               /\ mutex_bus_access' = NoOne
               /\ loc' = [loc EXCEPT ![p].lsr = v]
               /\ Goto(p, IF Has(v, CH43X_LSR_FIFOE_BIT)
                          THEN "rx_rhr_forced" ELSE "rx_poll")
               /\ UNCHANGED <<buf, hw, one, port, work, mutex, env, obs>>
        \* line 479: spin until data ready
        \/ \E v \in LsrAnswers(lsrs) :
               /\ InBus(p, "rx_poll")
               /\ mutex_bus_access' = NoOne
               /\ loc' = [loc EXCEPT ![p].lsr = v]
               /\ Goto(p, IF Has(v, CH43X_LSR_DR_BIT) THEN "rx_rhr" ELSE "rx_poll")
               /\ UNCHANGED <<buf, hw, one, port, work, mutex, env, obs>>
        \* lines 474-477 and 484-520: read the byte, classify it, hand it on
        \/ \E ch \in chars, brk_hook \in BOOLEAN, sysrq_hook \in BOOLEAN :
               /\ \/ InBus(p, "rx_rhr")
                  \/ InBus(p, "rx_rhr_forced")
               /\ mutex_bus_access' = NoOne
               /\ RxByte(c, loc[p].lsr, ch, brk_hook, sysrq_hook)
               /\ env' = [env EXCEPT !.rx = IF @ > 0 THEN @ - 1 ELSE 0]
               /\ loc' = [loc EXCEPT ![p].tmp = @ + 1]
               /\ Goto(p, "rx_lsr_next")
               /\ UNCHANGED <<buf, hw, one, work, mutex>>
        \* lines 522-526
        \/ \E v \in LsrAnswers(lsrs) :
               /\ InBus(p, "rx_lsr_next")
               /\ mutex_bus_access' = NoOne
               /\ loc' = [loc EXCEPT ![p].lsr = v,
                                     ![p].tmp = IF Has(v, CH43X_LSR_DR_BIT)
                                                THEN @ ELSE 0]
               /\ Goto(p, RxNext(v))
               /\ obs' = [obs EXCEPT
                      !.flips[c] = IF RxNext(v) = "rx_rhr" THEN @ ELSE @ + 1,
                      !.drain[c].done = RxNext(v) # "rx_rhr",
                      !.drain[c].more =
                          IF Has(v, CH43X_LSR_DR_BIT) THEN @ + 1 ELSE @]
               /\ UNCHANGED <<buf, hw, one, port, work, mutex, env>>

(***************************************************************************)
(* ch43x_ist and ch43x_port_irq: the threaded interrupt handler walks the  *)
(* channels; for each it loops on LSR and IIR until the device answers     *)
(* "no interrupt pending".  The device's answers for IIR are drawn from    *)
(* iirs: a source is reported only while it is enabled in IER, a receive   *)
(* source only while the device has bytes to hand over, and env.srcs       *)
(* bounds how many sources are reported in all.                            *)
(***************************************************************************)
IirSource(iir) == And(iir, CH43X_IIR_ID_MASK)

IirEnabled(c, iir) ==
    LET src == IirSource(iir)
    IN  CASE src = CH43X_IIR_THRI_SRC -> Has(hw[c].ier, CH43X_IER_THRI_BIT)
          [] src = CH43X_IIR_RDI_SRC ->
                 Has(hw[c].ier, CH43X_IER_RDI_BIT) /\ env.rx > 0
          [] src = CH43X_IIR_RTOI_SRC ->
                 Has(hw[c].ier, CH43X_IER_RDI_BIT) /\ env.rx > 0
          [] src = CH43X_IIR_RLSE_SRC ->
                 Has(hw[c].ier, CH43X_IER_RLSI_BIT) /\ env.rx > 0
          [] src = CH43X_IIR_MSI_SRC -> Has(hw[c].ier, CH43X_IER_MSI_BIT)
          [] OTHER -> TRUE

\* With env.line the device's interrupt output is modelled: a channel
\* answers with a source exactly while it has a condition pending
\* (env.pend), and the handler thread is woken by the falling edges of the
\* line (env.irqs is then the latched wake-up).
IirAnswers(c, iirs) ==
    IF env.line
    THEN {IF env.pend[c] THEN CH43X_IIR_MSI_SRC ELSE CH43X_IIR_NO_INT_BIT}
    ELSE {v \in iirs \cup {CH43X_IIR_NO_INT_BIT} :
             \/ Has(v, CH43X_IIR_NO_INT_BIT)
             \/ env.srcs > 0 /\ IirEnabled(c, v)}

\* lines 614-618 without mutex_lock(&s->mutex): the drain entered directly
IirDispatchNoLock(src) ==
    CASE src = CH43X_IIR_RDI_SRC -> "rx_poll"
      [] src = CH43X_IIR_RTOI_SRC -> "rx_poll"
      [] src = CH43X_IIR_RLSE_SRC -> "rx_lsr_first"
      [] src = CH43X_IIR_MSI_SRC -> "irq_msr"
      [] src = CH43X_IIR_THRI_SRC -> "tx_entry"
      [] OTHER -> "irq_lsr"
\* lines 603-622: where the switch goes
IirDispatch(src) ==
    CASE src = CH43X_IIR_RDI_SRC -> "rx_poll"
      [] src = CH43X_IIR_RTOI_SRC -> "rx_poll"
      [] src = CH43X_IIR_RLSE_SRC -> "rx_lsr_first"
      [] src = CH43X_IIR_MSI_SRC -> "irq_msr"
      [] src = CH43X_IIR_THRI_SRC -> "irq_tx_lock"
      [] OTHER -> "irq_lsr"

ch43x_ist(iirs) ==
    LET p == Ist
        c == loc[p].line
    IN  \* the interrupt line wakes the handler thread
        \/ /\ pc[p] = "idle"
           /\ env.irqs > 0
           /\ env' = [env EXCEPT !.irqs = @ - 1]
           /\ Goto(p, "irq_lsr")
           /\ UNCHANGED <<buf, hw, one, port, work, mutex, mutex_bus_access, loc, obs>>
        \* line 584
        \/ /\ InBus(p, "irq_lsr")
           /\ mutex_bus_access' = NoOne
           /\ Goto(p, "irq_iir")
           /\ UNCHANGED <<buf, hw, one, port, work, mutex, loc, env, obs>>
        \* lines 597-608 and the for loop of ch43x_ist
        \/ \E iir \in IirAnswers(c, iirs) :
               /\ InBus(p, "irq_iir")
               /\ mutex_bus_access' = NoOne
               /\ IF Has(iir, CH43X_IIR_NO_INT_BIT)
                  THEN /\ IF c + 1 < NR_UART
                          THEN /\ Goto(p, "irq_lsr")
                               /\ loc' = [loc EXCEPT ![p].line = c + 1]
                          ELSE Return(p)
                       /\ UNCHANGED env
                  ELSE /\ Goto(p, IirDispatch(IirSource(iir)))
                       /\ loc' = [loc EXCEPT ![p].iir = IirSource(iir)]
                       /\ env' = [env EXCEPT
                                     !.srcs = IF env.line THEN @ ELSE @ - 1]
               /\ UNCHANGED <<buf, hw, one, port, work, mutex, obs>>

\* lines 609-613
ch43x_port_irq_msr(msrs) ==
    LET p == Ist
        c == loc[p].line
    IN  \E msr \in msrs :
            /\ InBus(p, "irq_msr")
            /\ mutex_bus_access' = NoOne
            /\ one' = [one EXCEPT ![c].msr_reg = msr]
            /\ Goto(p, "irq_lsr")
            \* the read of MSR clears the channel's modem-status condition
            /\ env' = [env EXCEPT !.pend[c] = FALSE]
            /\ UNCHANGED <<buf, hw, port, work, mutex, loc, obs>>

\* lines 614-618
ch43x_port_irq_tx ==
    LET p == Ist
        c == loc[p].line
    IN  \/ LockMutex(p, "irq_tx_lock", "tx_entry")
        \/ ch43x_handle_tx(c)
        \/ /\ pc[p] = "irq_tx_unlock"
           /\ mutex' = NoOne
           /\ Goto(p, "irq_lsr")
           /\ UNCHANGED <<buf, hw, one, port, work, mutex_bus_access, loc, env, obs>>

\* line 607
ch43x_port_irq_rx(lsrs, chars) == ch43x_handle_rx(loc[Ist].line, lsrs, chars)

(***************************************************************************)
(* The device's interrupt output.  INT# is one line for both channels, low *)
(* while either has a condition pending and its interrupt output enabled   *)
(* (MCR OUT2, line 981); it is requested falling-edge-triggered (line      *)
(* 1248), so the handler thread is woken when the line goes from high to   *)
(* low, and a wake-up that arrives while the thread runs is latched.       *)
(***************************************************************************)
LineLow == \E c \in Ports : env.pend[c]

\* a modem-status change on channel c
DevRaise(c) ==
    /\ env.line
    /\ env.srcs > 0
    /\ ~env.pend[c]
    /\ Has(hw[c].ier, CH43X_IER_MSI_BIT)
    /\ Has(hw[c].mcr, CH43X_MCR_OUT2)
    /\ env' = [env EXCEPT !.srcs = @ - 1, !.pend[c] = TRUE,
                          !.irqs = IF LineLow THEN @ ELSE 1]
    /\ UNCHANGED <<buf, hw, one, port, work, mutex, mutex_bus_access, pc, loc,
                   obs>>

(***************************************************************************)
(* The tty layer's side of the transmit ring: it appends n bytes, queues   *)
(* an immediate character, or stops and restarts output.                   *)
(***************************************************************************)
TtyFill(c, ns) ==
    \E n \in ns :
        /\ env.open[c]
        /\ env.fills > 0
        /\ n <= UART_XMIT_SIZE - 1 - CircPending(port[c].head, port[c].tail)
        /\ env' = [env EXCEPT !.fills = @ - 1]
        /\ port' = [port EXCEPT ![c].head = (@ + n) % UART_XMIT_SIZE]
        /\ obs' = [obs EXCEPT !.src[c] =
               IF @.fills = 0 /\ uart_circ_empty(port[c]) /\ port[c].x_char = 0
               THEN [fills |-> 1, tail |-> port[c].tail, pend |-> n,
                     count |-> port[c].icount.tx, plain |-> TRUE]
               ELSE [@ EXCEPT !.fills = 2, !.plain = FALSE],
                              !.thr[c] =
               IF obs.src[c].fills = 0 /\ uart_circ_empty(port[c])
                  /\ port[c].x_char = 0
               THEN <<>> ELSE @]
        /\ UNCHANGED <<buf, hw, one, work, mutex, mutex_bus_access, pc, loc>>

TtyXchar(c, chs) ==
    \E ch \in chs :
        /\ env.open[c]
        /\ env.fills > 0
        /\ port[c].x_char = 0
        /\ env' = [env EXCEPT !.fills = @ - 1]
        /\ port' = [port EXCEPT ![c].x_char = ch]
        /\ obs' = [obs EXCEPT !.src[c].plain = FALSE]
        /\ UNCHANGED <<buf, hw, one, work, mutex, mutex_bus_access, pc, loc>>

TtyStop(c) ==
    \E how \in {"stopped", "hw_stopped"} :
        /\ env.open[c]
        /\ env.fills > 0
        /\ env' = [env EXCEPT !.fills = @ - 1]
        /\ port' = [port EXCEPT ![c][how] = ~@]
        /\ UNCHANGED <<buf, hw, one, work, mutex, mutex_bus_access, pc, loc, obs>>

(***************************************************************************)
(* Initial states.  ProbeHw is the chip as ch43x_probe leaves it: IER and  *)
(* MCR zeroed, the scratch register after ch43x_spi_test, channel 0 asleep *)
(* and the clock doubler of channel 1 on.                                  *)
(***************************************************************************)
SPR_TEST_LAST == 170

ProbeHw ==
    [c \in Ports |->
        [ier |-> IF c = 0 THEN CH43X_IER_SLEEP_BIT ELSE CH43X_IER_CK2X_BIT,
         lcr |-> 0, mcr |-> 0, fcr |-> 0, dll |-> 0, dlh |-> 0,
         spr |-> SPR_TEST_LAST]]

\* the termios of a freshly opened tty
DefaultBaud == 9600
DefaultTermios ==
    [csize |-> "CS8", cflag |-> {"CREAD"}, iflag |-> {}, baud |-> DefaultBaud]

\* the chip once the ports of opens were opened: ch43x_startup, then the
\* core's first ch43x_set_termios with the default termios
OpenHw(opens) ==
    [c \in Ports |->
        IF c \in opens
        THEN [ier |-> Or(IF c = 0 THEN 0 ELSE CH43X_IER_CK2X_BIT,
                         Or(CH43X_IER_RDI_BIT,
                            Or(CH43X_IER_RLSI_BIT, CH43X_IER_MSI_BIT))),
              lcr |-> TermiosLcr(DefaultTermios.csize, DefaultTermios.cflag),
              mcr |-> CH43X_MCR_OUT2,
              fcr |-> Or(CH43X_FCR_RXLVLH_BIT, CH43X_FCR_FIFO_BIT),
              dll |-> BaudDiv(UartClk, DefaultBaud) % 256,
              dlh |-> BaudDiv(UartClk, DefaultBaud) \div 256,
              spr |-> SPR_TEST_LAST]
        ELSE IF c = 0 /\ opens # {} THEN [ProbeHw[c] EXCEPT !.ier = 0]
        ELSE ProbeHw[c]]

NoIcount ==
    [rx |-> 0, tx |-> 0, brk |-> 0, parity |-> 0, frame |-> 0, overrun |-> 0,
     cts |-> 0]

PortInit(masks, at) ==
    [mctrl |-> {},
     read_status_mask |-> IF masks THEN ReadStatusMask(DefaultTermios.iflag) ELSE 0,
     ignore_status_mask |->
         IF masks THEN IgnoreStatusMask(DefaultTermios.iflag, DefaultTermios.cflag)
         ELSE 0,
     x_char |-> 0, stopped |-> FALSE, hw_stopped |-> FALSE,
     head |-> at, tail |-> at,
     icount |-> NoIcount]

ObsInit(opens) ==
    [torn |-> [c \in Ports |-> FALSE],
     late |-> [c \in Ports |-> FALSE],
     sdpend |-> [c \in Ports |-> FALSE],
     batch |-> [c \in Ports |-> [w \in WorkNames |-> 0]],
     batches |-> [c \in Ports |-> [w \in WorkNames |-> 0]],
     took |-> [c \in Ports |-> [w \in WorkNames |-> 0]],
     runs |-> [c \in Ports |-> [w \in WorkNames |-> 0]],
     stx |-> [c \in Ports |->
                 [rs485 |-> FALSE, temt |-> "unread", delays |-> 0,
                  wrote |-> FALSE, empty |-> FALSE, delay |-> 0, ier0 |-> 0,
                  prev |-> "unread"]],
     md |-> [c \in Ports |-> [mctrl |-> {}, val |-> -1, force |-> 0]],
     cfg |-> [c \in Ports |->
                 IF c \in opens
                 THEN [req |-> DefaultTermios,
                       lcr |-> TermiosLcr(DefaultTermios.csize,
                                          DefaultTermios.cflag)]
                 ELSE [req |-> NoTermios, lcr |-> -1]],
     baud |-> [c \in Ports |->
                 IF c \in opens
                 THEN [req |-> DefaultBaud, div |-> BaudDiv(UartClk, DefaultBaud),
                       ok |-> TRUE,
                       val |-> DIV_ROUND_CLOSEST(UartClk \div 16,
                                                 BaudDiv(UartClk, DefaultBaud))]
                 ELSE [req |-> 0, div |-> 0, ok |-> TRUE, val |-> 0]],
     ioctl |-> [c \in Ports |->
                 [cmd |-> "none", arg |-> NoRs485, fault |-> FALSE,
                  before |-> NoRs485, out |-> NoRs485, ret |-> "0", n |-> 0,
                  set |-> NoRs485]],
     tx |-> [c \in Ports |-> [pend |-> 0, tail0 |-> 0, sent |-> TRUE]],
     thr |-> [c \in Ports |-> <<>>],
     src |-> [c \in Ports |->
                 [fills |-> 0, tail |-> 0, pend |-> 0, count |-> 0,
                  plain |-> TRUE]],
     rx |-> [c \in Ports |->
                 [n |-> 0, lsr |-> 0, ch |-> 0, mask |-> 0, iflag |-> {},
                  before |-> NoIcount, delivered |-> FALSE,
                  flag |-> "TTY_NORMAL", status |-> 0, counted |-> "none"]],
     drain |-> [c \in Ports |->
                 [forced |-> FALSE, reads |-> 0, more |-> 0, done |-> TRUE,
                  lsr1 |-> 0, rx0 |-> 0, flips0 |-> 0]],
     flips |-> [c \in Ports |-> 0],
     sb |-> [c \in Ports |-> NoSetBaud],
     txreqs |-> [c \in Ports |-> <<>>],
     txd |-> [c \in Ports |->
                 [x |-> 0, empty |-> TRUE, stopped |-> FALSE, tail0 |-> 0,
                  tx0 |-> 0, wrote |-> 0, byte |-> -1, prevx |-> 0]]]

\* what does not depend on which ports are open
InitCommon(b, opens) ==
    /\ buf = <<>>
    /\ work = [c \in Ports |-> [w \in WorkNames |-> 0]]
    /\ mutex = NoOne
    /\ mutex_bus_access = NoOne
    /\ pc = [p \in Procs |-> "idle"]
    /\ loc = [p \in Procs |-> LocInit]
    /\ env = [open |-> [c \in Ports |-> c \in opens], calls |-> b.calls,
              reqs |-> b.reqs, irqs |-> b.irqs, srcs |-> b.srcs,
              rx |-> b.rx, fills |-> b.fills,
              line |-> "line" \in DOMAIN b,
              pend |-> [c \in Ports |-> FALSE]]

\* after ch43x_probe
InitProbe(b) ==
    /\ InitCommon(b, {})
    /\ hw = ProbeHw
    /\ one = [c \in Ports |->
                 [mcr_force |-> 0, rs485 |-> NoRs485, msr_reg |-> 0]]
    /\ port = [c \in Ports |-> PortInit(FALSE, 0)]
    /\ obs = ObsInit({})

\* the ports of opens open and idle, the others as ch43x_probe left them;
\* the transmit rings empty at one of tails
InitOpenWith(b, opens, tails, h) ==
    /\ InitCommon(b, opens)
    /\ hw = h
    /\ one = [c \in Ports |->
                 [mcr_force |-> IF c \in opens THEN CH43X_MCR_OUT2 ELSE 0,
                  rs485 |-> NoRs485, msr_reg |-> 0]]
    /\ \E at \in tails :
           port = [c \in Ports |->
                      IF c \in opens THEN PortInit(TRUE, at)
                      ELSE PortInit(FALSE, 0)]
    /\ obs = ObsInit(opens)

InitOpen(b, opens, tails) == InitOpenWith(b, opens, tails, OpenHw(opens))

(***************************************************************************)
(* SpecTx: two open ports transmitting.  The tty layer fills a ring once,  *)
(* the core starts output, the device raises TX-ready interrupts.          *)
(***************************************************************************)
TxMaxReqs == 1
TxMaxIrqs == 1
TxMaxSrcs == 4
TxMaxFills == 1
MaxPending == 40

TxBudget ==
    [calls |-> 0, reqs |-> TxMaxReqs, irqs |-> TxMaxIrqs,
     srcs |-> TxMaxSrcs, rx |-> 0, fills |-> TxMaxFills]
TxTails == {0, UART_XMIT_SIZE - 6}
TxFills == {1, CH43X_FIFO_SIZE, CH43X_FIFO_SIZE + 1, MaxPending}
TxIirs == {CH43X_IIR_THRI_SRC}

InitTx == InitOpen(TxBudget, Ports, TxTails)

NextTx ==
    \/ \E c \in Ports : TtyFill(c, TxFills)
    \/ \E c \in Ports : ch43x_start_tx(c)
    \/ \E c \in Ports : WorkRun(c, "tx_work")
    \/ \E p \in Procs : LockBus(p)
    \/ \E c \in Ports : ch43x_wq_proc(c)
    \/ ch43x_ist(TxIirs)
    \/ ch43x_port_irq_tx

SpecTx == InitTx /\ [][NextTx]_vars

(***************************************************************************)
(* SpecStopTx: two open ports; RS485 is configured through the ioctl, the  *)
(* tty layer may leave bytes in a ring, the core stops output.             *)
(***************************************************************************)
StxMaxCalls == 1
StxMaxReqs == 2
StxMaxFills == 1

StxBudget ==
    [calls |-> StxMaxCalls, reqs |-> StxMaxReqs, irqs |-> 0,
     srcs |-> 0, rx |-> 0, fills |-> StxMaxFills]
StxRs485 ==
    {[flags |-> SER_RS485_ENABLED, delay_rts_before_send |-> 0,
      delay_rts_after_send |-> d] : d \in {0, 1}}
StxLsrs == {0, CH43X_LSR_THRE_BIT, Or(CH43X_LSR_THRE_BIT, CH43X_LSR_TEMT_BIT)}

InitStopTx == InitOpen(StxBudget, Ports, {0})

NextStopTx ==
    \/ \E c \in Ports : TtyFill(c, {1})
    \/ \E c \in Ports : ch43x_ioctl(c, {"IOCTL_CMD_SRS485"}, StxRs485, {FALSE})
    \/ \E c \in Ports : ch43x_stop_tx(c)
    \/ \E c \in Ports : WorkRun(c, "stop_tx_work")
    \/ \E p \in Procs : LockBus(p)
    \/ \E c \in Ports : ch43x_stop_tx_work_proc(c, StxLsrs)

SpecStopTx == InitStopTx /\ [][NextStopTx]_vars

(***************************************************************************)
(* Spec: the driver after ch43x_probe, with every thread of control: the   *)
(* serial core opening, configuring and closing ports and calling the      *)
(* hooks, the four workers of each channel, and the interrupt thread.      *)
(***************************************************************************)
MaxCalls == 1
MaxReqs == 1
MaxIrqs == 1
MaxSrcs == 1
MaxRx == 1

Budget ==
    [calls |-> MaxCalls, reqs |-> MaxReqs, irqs |-> MaxIrqs,
     srcs |-> MaxSrcs, rx |-> MaxRx, fills |-> 0]
Termioses == {[DefaultTermios EXCEPT !.cflag = {"CREAD", "CRTSCTS"}]}
Mctrls == {{"TIOCM_RTS", "TIOCM_DTR"}}
Rs485s ==
    {[flags |-> SER_RS485_ENABLED, delay_rts_before_send |-> 0,
      delay_rts_after_send |-> 1]}
Lsrs ==
    {Or(CH43X_LSR_THRE_BIT, CH43X_LSR_TEMT_BIT),
     Or(CH43X_LSR_DR_BIT, CH43X_LSR_THRE_BIT)}
Chars == {65}
Iirs == {CH43X_IIR_THRI_SRC, CH43X_IIR_RDI_SRC, CH43X_IIR_MSI_SRC}
Msrs == {0}

\* port 0 is open, its TX-ready interrupt enabled by an earlier start-tx;
\* port 1 is closed
Init ==
    InitOpenWith(Budget, {0}, {0},
                 [OpenHw({0}) EXCEPT ![0].ier = Or(@, CH43X_IER_THRI_BIT)])

Next ==
    \/ \E c \in Ports : ch43x_startup(c)
    \/ \E c \in Ports : ch43x_shutdown(c)
    \/ \E c \in Ports : ch43x_set_termios(c, Termioses)
    \/ \E c \in Ports : ch43x_ioctl(c, {"IOCTL_CMD_SRS485"}, Rs485s, {FALSE})
    \/ \E c \in Ports : ch43x_set_mctrl(c, Mctrls)
    \/ \E c \in Ports : ch43x_start_tx(c)
    \/ \E c \in Ports : ch43x_stop_tx(c)
    \/ \E c \in Ports : ch43x_stop_rx(c)
    \/ \E c \in Ports, w \in WorkNames : WorkRun(c, w)
    \/ \E p \in Procs : LockBus(p)
    \/ \E c \in Ports : ch43x_wq_proc(c)
    \/ \E c \in Ports : ch43x_stop_rx_work_proc(c)
    \/ \E c \in Ports : ch43x_stop_tx_work_proc(c, Lsrs)
    \/ \E c \in Ports : ch43x_md_proc(c)
    \/ ch43x_ist(Iirs)
    \/ ch43x_port_irq_msr(Msrs)
    \/ ch43x_port_irq_tx
    \/ ch43x_port_irq_rx(Lsrs, Chars)

Spec == Init /\ [][Next]_vars

(***************************************************************************)
(* SpecWork: two open ports; the core calls the four scheduling hooks and  *)
(* may enable RS485, the workers run what was queued.                      *)
(***************************************************************************)
WorkMaxCalls == 1
WorkMaxReqs == 2

WorkBudget ==
    [calls |-> WorkMaxCalls, reqs |-> WorkMaxReqs, irqs |-> 0, srcs |-> 0,
     rx |-> 0, fills |-> 0]

InitWork == InitOpen(WorkBudget, Ports, {0})

NextWork ==
    \/ \E c \in Ports : ch43x_ioctl(c, {"IOCTL_CMD_SRS485"}, Rs485s, {FALSE})
    \/ \E c \in Ports : ch43x_set_mctrl(c, Mctrls)
    \/ \E c \in Ports : ch43x_start_tx(c)
    \/ \E c \in Ports : ch43x_stop_tx(c)
    \/ \E c \in Ports : ch43x_stop_rx(c)
    \/ \E c \in Ports, w \in WorkNames : WorkRun(c, w)
    \/ \E p \in Procs : LockBus(p)
    \/ \E c \in Ports : ch43x_wq_proc(c)
    \/ \E c \in Ports : ch43x_stop_rx_work_proc(c)
    \/ \E c \in Ports : ch43x_stop_tx_work_proc(c, Lsrs)
    \/ \E c \in Ports : ch43x_md_proc(c)

SpecWork == InitWork /\ [][NextWork]_vars

(***************************************************************************)
(* SpecRx: port 0 open and receiving.  The core sets its input flags, the  *)
(* device raises receive interrupts and hands over bytes with any          *)
(* combination of the error bits.                                          *)
(***************************************************************************)
RxMaxCalls == 1
RxMaxIrqs == 1
RxMaxSrcs == 1
RxMaxBytes == 1

RxBudget ==
    [calls |-> RxMaxCalls, reqs |-> 0, irqs |-> RxMaxIrqs, srcs |-> RxMaxSrcs,
     rx |-> RxMaxBytes, fills |-> 0]
RxTermioses ==
    {[DefaultTermios EXCEPT !.iflag = f] :
        f \in {{}, {"INPCK"}, {"BRKINT"}, {"INPCK", "BRKINT"}, {"PARMRK"}}}
\* the four error bits in every combination
RxErrs == {2 * k : k \in 0 .. 15}
RxLsrs ==
    {Or(CH43X_LSR_DR_BIT, e) : e \in RxErrs}
    \cup {Or(CH43X_LSR_THRE_BIT, CH43X_LSR_TEMT_BIT)}
    \cup {Or(CH43X_LSR_FIFOE_BIT, Or(CH43X_LSR_DR_BIT, CH43X_LSR_PE_BIT))}
RxIirs == {CH43X_IIR_RDI_SRC, CH43X_IIR_RLSE_SRC}

InitRx == InitOpen(RxBudget, {0}, {0})

NextRx ==
    \/ \E c \in Ports : ch43x_set_termios(c, RxTermioses)
    \/ \E p \in Procs : LockBus(p)
    \/ ch43x_ist(RxIirs)
    \/ ch43x_port_irq_rx(RxLsrs, Chars)

SpecRx == InitRx /\ [][NextRx]_vars

(***************************************************************************)
(* SpecTermios: port 0 open; the core requests line settings (every word   *)
(* length, parity and stop-bit choice) and baud rates from the range the   *)
(* driver gives uart_get_baud_rate.                                        *)
(***************************************************************************)
TermMaxCalls == 1

TermBudget ==
    [calls |-> TermMaxCalls, reqs |-> 0, irqs |-> 0, srcs |-> 0, rx |-> 0,
     fills |-> 0]
TermLines ==
    {[DefaultTermios EXCEPT !.csize = cs, !.cflag = {"CREAD"} \cup cf] :
        cs \in CSIZE, cf \in SUBSET {"PARENB", "PARODD", "CMSPAR", "CSTOPB"}}
TermBauds ==
    {BaudMin(UartClk), BaudMin(UartClk) + 1, DefaultBaud, 115200,
     UartClk \div 16, (UartClk \div 16) + 1, 3000000, BaudMax(UartClk)}
TermTermioses ==
    TermLines \cup {[DefaultTermios EXCEPT !.baud = b] : b \in TermBauds}

InitTermios == InitOpen(TermBudget, {0}, {0})

NextTermios ==
    \/ \E c \in Ports : ch43x_set_termios(c, TermTermioses)
    \/ \E p \in Procs : LockBus(p)

SpecTermios == InitTermios /\ [][NextTermios]_vars

(***************************************************************************)
(* SpecLife: both ports open; the serial core closes, reopens and power-   *)
(* manages them.                                                           *)
(***************************************************************************)
LifeMaxCalls == 3

LifeBudget ==
    [calls |-> LifeMaxCalls, reqs |-> 0, irqs |-> 0, srcs |-> 0, rx |-> 0,
     fills |-> 0]

InitLife == InitOpen(LifeBudget, Ports, {0})

NextLife ==
    \/ \E c \in Ports : ch43x_startup(c)
    \/ \E c \in Ports : ch43x_shutdown(c)
    \/ \E c \in Ports : ch43x_pm(c)
    \/ \E p \in Procs : LockBus(p)

SpecLife == InitLife /\ [][NextLife]_vars

(***************************************************************************)
(* SpecIrq: port 0 open; the device raises interrupts of every source and  *)
(* the interrupt thread dispatches them, while start-tx and its worker     *)
(* contend for the state lock.  Every thread that can take a step          *)
(* eventually takes it: the interrupt thread and the workers are kernel    *)
(* threads the scheduler keeps running, and a mutex is handed to a waiter. *)
(***************************************************************************)
IrqMaxReqs == 1
IrqMaxIrqs == 1
IrqMaxSrcs == 2
IrqMaxRx == 1
IrqMaxFills == 1

IrqBudget ==
    [calls |-> 0, reqs |-> IrqMaxReqs, irqs |-> IrqMaxIrqs,
     srcs |-> IrqMaxSrcs, rx |-> IrqMaxRx, fills |-> IrqMaxFills]
IrqIirs ==
    {CH43X_IIR_THRI_SRC, CH43X_IIR_RDI_SRC, CH43X_IIR_RLSE_SRC,
     CH43X_IIR_RTOI_SRC, CH43X_IIR_MSI_SRC}
IrqLsrs ==
    {Or(CH43X_LSR_THRE_BIT, CH43X_LSR_TEMT_BIT),
     Or(CH43X_LSR_DR_BIT, CH43X_LSR_THRE_BIT),
     Or(CH43X_LSR_FIFOE_BIT, Or(CH43X_LSR_DR_BIT, CH43X_LSR_PE_BIT))}

InitIrq == InitOpen(IrqBudget, {0}, {0})

IstStep ==
    \/ ch43x_ist(IrqIirs)
    \/ ch43x_port_irq_msr(Msrs)
    \/ ch43x_port_irq_tx
    \/ ch43x_port_irq_rx(IrqLsrs, Chars)

NextIrq ==
    \/ \E c \in Ports : TtyFill(c, {1})
    \/ \E c \in Ports : ch43x_start_tx(c)
    \/ \E c \in Ports : WorkRun(c, "tx_work")
    \/ \E c \in Ports : ch43x_wq_proc(c)
    \/ \E p \in Procs : LockBus(p)
    \/ IstStep

FairIrq ==
    /\ WF_vars(IstStep)
    /\ \A p \in Procs : WF_vars(LockBus(p))
    /\ \A c \in Ports : WF_vars(WorkRun(c, "tx_work"))
    /\ \A c \in Ports : WF_vars(ch43x_wq_proc(c))

SpecIrq == InitIrq /\ [][NextIrq]_vars /\ FairIrq

(***************************************************************************)
(* SpecRs485: both ports open; user space sets and gets the RS485 record   *)
(* of either port, with good and bad pointers, and sends unknown requests. *)
(***************************************************************************)
RsMaxCalls == 3

RsBudget ==
    [calls |-> RsMaxCalls, reqs |-> 0, irqs |-> 0, srcs |-> 0, rx |-> 0,
     fills |-> 0]
RsCmds == {"IOCTL_CMD_SRS485", "IOCTL_CMD_GRS485", "other"}
RsRecords ==
    {[flags |-> SER_RS485_ENABLED, delay_rts_before_send |-> 1,
      delay_rts_after_send |-> 2],
     [flags |-> 0, delay_rts_before_send |-> 2, delay_rts_after_send |-> 1]}

InitRs485 == InitOpen(RsBudget, Ports, {0})

NextRs485 == \E c \in Ports : ch43x_ioctl(c, RsCmds, RsRecords, BOOLEAN)

SpecRs485 == InitRs485 /\ [][NextRs485]_vars

(***************************************************************************)
(* SpecForced: port 0 open; the device raises a line-status or RX-data     *)
(* interrupt and has up to two bytes to hand over.                         *)
(***************************************************************************)
ForcedMaxIrqs == 1
ForcedMaxSrcs == 1
ForcedMaxBytes == 2

ForcedBudget ==
    [calls |-> 0, reqs |-> 0, irqs |-> ForcedMaxIrqs, srcs |-> ForcedMaxSrcs,
     rx |-> ForcedMaxBytes, fills |-> 0]
ForcedIirs == {CH43X_IIR_RLSE_SRC, CH43X_IIR_RDI_SRC}
ForcedLsrs ==
    {Or(CH43X_LSR_FIFOE_BIT, Or(CH43X_LSR_DR_BIT, CH43X_LSR_PE_BIT)),
     Or(CH43X_LSR_FIFOE_BIT, Or(CH43X_LSR_THRE_BIT, CH43X_LSR_BI_BIT)),
     Or(CH43X_LSR_DR_BIT, CH43X_LSR_THRE_BIT),
     Or(CH43X_LSR_THRE_BIT, CH43X_LSR_TEMT_BIT)}

InitForced == InitOpen(ForcedBudget, {0}, {0})

NextForced ==
    \/ ch43x_ist(ForcedIirs)
    \/ ch43x_port_irq_rx(ForcedLsrs, Chars)
    \/ \E p \in Procs : LockBus(p)

SpecForced == InitForced /\ [][NextForced]_vars

(***************************************************************************)
(* SpecXchar: port 0 open with its TX-ready interrupt enabled.  The tty     *)
(* layer fills the ring, queues an immediate character (XON/XOFF) and      *)
(* stops or restarts output, while the interrupt thread drains.            *)
(***************************************************************************)
XcMaxReqs == 1
XcMaxIrqs == 1
XcMaxSrcs == 2
XcMaxFills == 3

XcBudget ==
    [calls |-> 0, reqs |-> XcMaxReqs, irqs |-> XcMaxIrqs, srcs |-> XcMaxSrcs,
     rx |-> 0, fills |-> XcMaxFills]
\* XON and XOFF
XcChars == {17, 19}
XcFills == {1, CH43X_FIFO_SIZE + 1}

InitXchar ==
    InitOpenWith(XcBudget, {0}, {0},
                 [OpenHw({0}) EXCEPT ![0].ier = Or(@, CH43X_IER_THRI_BIT)])

NextXchar ==
    \/ \E c \in Ports : TtyFill(c, XcFills)
    \/ \E c \in Ports : TtyXchar(c, XcChars)
    \/ \E c \in Ports : TtyStop(c)
    \/ \E c \in Ports : ch43x_start_tx(c)
    \/ \E c \in Ports : WorkRun(c, "tx_work")
    \/ \E c \in Ports : ch43x_wq_proc(c)
    \/ \E p \in Procs : LockBus(p)
    \/ ch43x_ist(TxIirs)
    \/ ch43x_port_irq_tx

SpecXchar == InitXchar /\ [][NextXchar]_vars

(***************************************************************************)
(* SpecMcr: port 0 open.  The serial core sets the modem-control signals,  *)
(* switches hardware flow control on and off, closes and reopens the port, *)
(* while the worker runs the deferred modem-control update.                *)
(***************************************************************************)
McrMaxCalls == 3
McrMaxReqs == 1

McrBudget ==
    [calls |-> McrMaxCalls, reqs |-> McrMaxReqs, irqs |-> 0, srcs |-> 0,
     rx |-> 0, fills |-> 0]
McrTermioses ==
    {DefaultTermios, [DefaultTermios EXCEPT !.cflag = {"CREAD", "CRTSCTS"}]}

InitMcr == InitOpen(McrBudget, {0}, {0})

NextMcr ==
    \/ \E c \in Ports : ch43x_startup(c)
    \/ \E c \in Ports : ch43x_shutdown(c)
    \/ \E c \in Ports : ch43x_set_termios(c, McrTermioses)
    \/ \E c \in Ports : ch43x_set_mctrl(c, Mctrls)
    \/ \E c \in Ports : WorkRun(c, "md_work")
    \/ \E c \in Ports : ch43x_md_proc(c)
    \/ \E p \in Procs : LockBus(p)

SpecMcr == InitMcr /\ [][NextMcr]_vars

(***************************************************************************)
(* SpecRestart: port 0 open with bytes in its ring.  The serial core stops *)
(* and starts output and may enable RS485; the workers run the two         *)
(* deferred actions in any order.                                          *)
(***************************************************************************)
RestartMaxCalls == 1
RestartMaxReqs == 2
RestartMaxFills == 1

RestartBudget ==
    [calls |-> RestartMaxCalls, reqs |-> RestartMaxReqs, irqs |-> 0, srcs |-> 0, rx |-> 0,
     fills |-> RestartMaxFills]

InitRestart == InitOpen(RestartBudget, {0}, {0})

NextRestart ==
    \/ \E c \in Ports : TtyFill(c, {1})
    \/ \E c \in Ports : ch43x_ioctl(c, {"IOCTL_CMD_SRS485"}, StxRs485, {FALSE})
    \/ \E c \in Ports : ch43x_stop_tx(c)
    \/ \E c \in Ports : ch43x_start_tx(c)
    \/ \E c \in Ports : WorkRun(c, "tx_work")
    \/ \E c \in Ports : WorkRun(c, "stop_tx_work")
    \/ \E c \in Ports : ch43x_wq_proc(c)
    \/ \E c \in Ports : ch43x_stop_tx_work_proc(c, StxLsrs)
    \/ \E p \in Procs : LockBus(p)

SpecRestart == InitRestart /\ [][NextRestart]_vars

(***************************************************************************)
(* SpecLine: both ports open; the device raises modem-status changes on    *)
(* either channel at any time and the interrupt thread services them.  The *)
(* interrupt thread is a kernel thread that keeps running once woken, and  *)
(* the bus lock is handed to its waiter.                                   *)
(***************************************************************************)
LineMaxSrcs == 3

LineBudget ==
    [calls |-> 0, reqs |-> 0, irqs |-> 0, srcs |-> LineMaxSrcs, rx |-> 0,
     fills |-> 0, line |-> TRUE]
\* MSR with and without the CTS bit
LineMsrs == {0, 16}

InitLine == InitOpen(LineBudget, Ports, {0})

LineIst ==
    \/ ch43x_ist({})
    \/ ch43x_port_irq_msr(LineMsrs)

NextLine ==
    \/ \E c \in Ports : DevRaise(c)
    \/ \E p \in Procs : LockBus(p)
    \/ LineIst

FairLine ==
    /\ WF_vars(LineIst)
    /\ \A p \in Procs : WF_vars(LockBus(p))

SpecLine == InitLine /\ [][NextLine]_vars /\ FairLine

(***************************************************************************)
(* Flow-control configuration against the deferred modem-control update of *)
(* one open channel.                                                       *)
(***************************************************************************)
FlowMaxCalls == 2
FlowMaxReqs == 1

FlowBudget ==
    [calls |-> FlowMaxCalls, reqs |-> FlowMaxReqs, irqs |-> 0, srcs |-> 0,
     rx |-> 0, fills |-> 0]

InitFlow == InitOpen(FlowBudget, {0}, {0})

NextFlow ==
    \/ \E c \in Ports : ch43x_set_termios(c, McrTermioses)
    \/ \E c \in Ports : ch43x_set_mctrl(c, Mctrls)
    \/ \E c \in Ports : WorkRun(c, "md_work")
    \/ \E c \in Ports : ch43x_md_proc(c)
    \/ \E p \in Procs : LockBus(p)

SpecFlow == InitFlow /\ [][NextFlow]_vars

(***************************************************************************)
(* Two open ports transmitting data and flow-control characters: the tty   *)
(* layer fills a ring or posts an x_char, the core starts output, the      *)
(* device raises TX-ready interrupts on either channel.                    *)
(***************************************************************************)
FifoMaxReqs == 1
FifoMaxIrqs == 1
FifoMaxSrcs == 3
FifoMaxFills == 2

FifoBudget ==
    [calls |-> 0, reqs |-> FifoMaxReqs, irqs |-> FifoMaxIrqs,
     srcs |-> FifoMaxSrcs, rx |-> 0, fills |-> FifoMaxFills]
FifoFills == {CH43X_FIFO_SIZE + 1}

InitFifo ==
    InitOpenWith(FifoBudget, Ports, {0},
                 [c \in Ports |->
                     [OpenHw(Ports)[c] EXCEPT !.ier = Or(@, CH43X_IER_THRI_BIT)]])

NextFifo ==
    \/ \E c \in Ports : TtyFill(c, FifoFills)
    \/ \E c \in Ports : TtyXchar(c, XcChars)
    \/ \E c \in Ports : ch43x_start_tx(c)
    \/ \E c \in Ports : WorkRun(c, "tx_work")
    \/ \E c \in Ports : ch43x_wq_proc(c)
    \/ \E p \in Procs : LockBus(p)
    \/ ch43x_ist(TxIirs)
    \/ ch43x_port_irq_tx

SpecFifo == InitFifo /\ [][NextFifo]_vars

(***************************************************************************)
(* C1.  TX chunking.                                                       *)
(***************************************************************************)
\* the bytes the TX-drain calls have taken from port c's ring since it was
\* filled, the chunk not yet written to the FIFO included
TxCalls(c) == Len(obs.thr[c]) + (IF obs.tx[c].sent THEN 0 ELSE 1)
TxTaken(c) == Min(obs.src[c].pend, CH43X_FIFO_SIZE * TxCalls(c))
TxExpectChunk(c, i) ==
    LET n == Min(CH43X_FIFO_SIZE, obs.src[c].pend - CH43X_FIFO_SIZE * (i - 1))
    IN  [j \in 1 .. n |->
            XmitBuf((obs.src[c].tail + CH43X_FIFO_SIZE * (i - 1) + j - 1)
                    % UART_XMIT_SIZE)]

\* C1: for a pending source of n bytes on port c (no immediate character
\* queued, output not stopped), the i-th TX-drain call burst-writes exactly
\* min(16, remaining) bytes, the next ones of the source in order, and moves
\* the ring's tail by exactly that many; the transmitted-byte counter grows
\* by the same; for n = 40 the bursts are 16, 16, 8 and the counter ends
\* 40 higher.
C1_TxChunking ==
    \A c \in Ports :
        (obs.src[c].fills = 1 /\ obs.src[c].plain /\ ~uart_tx_stopped(port[c])) =>
            /\ \A i \in 1 .. Len(obs.thr[c]) :
                   /\ obs.src[c].pend - CH43X_FIFO_SIZE * (i - 1) >= 1
                   /\ obs.thr[c][i] = TxExpectChunk(c, i)
            /\ port[c].tail = (obs.src[c].tail + TxTaken(c)) % UART_XMIT_SIZE
            /\ port[c].icount.tx = obs.src[c].count + TxTaken(c)
            /\ CircPending(port[c].head, port[c].tail)
                   = obs.src[c].pend - TxTaken(c)
            /\ TxCalls(c) >= 1 =>
                   port[c].tail = TxNewTail(obs.tx[c].tail0,
                                            Min(CH43X_FIFO_SIZE, obs.tx[c].pend))
            /\ ~obs.tx[c].sent =>
                   /\ pc[Ist] = "tx_raw"
                   /\ buf = TxExpectChunk(c, TxCalls(c))
                   /\ loc[Ist].tmp = Len(buf)
            /\ (obs.src[c].pend = 40 /\ uart_circ_empty(port[c])
                /\ obs.tx[c].sent) =>
                   /\ [i \in 1 .. Len(obs.thr[c]) |-> Len(obs.thr[c][i])]
                          = <<16, 16, 8>>
                   /\ port[c].icount.tx = obs.src[c].count + 40

\* 40 bytes that straddle the end of the ring went out as 16, 16 and 8
C1_Witness ==
    \E c \in Ports :
        /\ obs.src[c].fills = 1 /\ obs.src[c].plain /\ ~uart_tx_stopped(port[c])
        /\ obs.src[c].pend = 40
        /\ obs.src[c].tail = UART_XMIT_SIZE - 6
        /\ Len(obs.thr[c]) = 3
        /\ Len(obs.thr[c][1]) = 16 /\ Len(obs.thr[c][2]) = 16
        /\ Len(obs.thr[c][3]) = 8
        /\ obs.thr[c][3][8] = XmitBuf(33)
        /\ uart_circ_empty(port[c])
        /\ port[c].icount.tx = 40

(***************************************************************************)
(* C2.  RS485 stop-tx gating.                                              *)
(***************************************************************************)
StxProc(c) == <<"stop_tx_work", c>>
StxRan(c) == obs.stx[c].rs485 /\ obs.stx[c].temt # "unread"
\* the stop-tx invocation has passed the point where it delays
StxPastDelay(c) ==
    \/ pc[StxProc(c)] \in {"stx_ier_rd", "stx_ier_wr", "stx_unlock"}
    \/ obs.stx[c].wrote

\* the abort half of the claim, which both statements share
StxAbortClean(c) ==
    (StxRan(c) /\ obs.stx[c].temt = "no") =>
        /\ ~obs.stx[c].wrote
        /\ obs.stx[c].delays = 0
        /\ hw[c].ier = obs.stx[c].ier0
        /\ pc[StxProc(c)] \in {"stx_abort", "idle", "stx_lock"}
        /\ pc[StxProc(c)] = "idle" => mutex # StxProc(c)

\* C2, as amended: with RS485 enabled, a stop-tx invocation that reads
\* transmitter-empty = false changes nothing (no IER write, no delay, state
\* lock released); one that reads transmitter-empty = true performs the
\* post-send delay exactly once if the transmit ring is empty and a delay is
\* configured, and not at all otherwise, and disables the TX-ready interrupt
\* only after that.
C2_StopTxGating ==
    \A c \in Ports :
        /\ StxAbortClean(c)
        /\ (StxRan(c) /\ obs.stx[c].temt = "yes") =>
               /\ obs.stx[c].delays <= 1
               /\ StxPastDelay(c) =>
                      obs.stx[c].delays =
                          (IF obs.stx[c].empty /\ obs.stx[c].delay > 0
                           THEN 1 ELSE 0)
               /\ obs.stx[c].wrote => ~Has(hw[c].ier, CH43X_IER_THRI_BIT)
               /\ pc[StxProc(c)] = "idle" =>
                      obs.stx[c].wrote /\ mutex # StxProc(c)

\* an invocation aborted, the next one found the transmitter empty, delayed
\* once and disabled the interrupt
C2_Witness ==
    \E c \in Ports :
        /\ StxRan(c)
        /\ obs.stx[c].prev = "no"
        /\ obs.stx[c].temt = "yes"
        /\ obs.stx[c].delays = 1
        /\ obs.stx[c].wrote
        /\ pc[StxProc(c)] = "idle"

\* C2 as stated: whenever transmitter-empty is read true (and a post-send
\* delay is configured), the delay is performed exactly once before the
\* interrupt is disabled
C2_AsStated ==
    \A c \in Ports :
        /\ StxAbortClean(c)
        /\ (StxRan(c) /\ obs.stx[c].temt = "yes" /\ obs.stx[c].delay > 0
            /\ StxPastDelay(c)) => obs.stx[c].delays = 1

(***************************************************************************)
(* C3.  Idempotent scheduling.                                             *)
(***************************************************************************)
\* C3: for each of the four work items of a channel, the requests made
\* since its body last started (a batch) are worth exactly one execution:
\* at most one execution is ever queued, one is queued exactly while a batch
\* is open, and the executions run or queued are as many as the batches, not
\* as many as the requests.
C3_IdempotentScheduling ==
    \A c \in Ports, w \in WorkNames :
        /\ work[c][w] <= 1
        /\ (obs.batch[c][w] >= 1) <=> (work[c][w] = 1)
        /\ obs.runs[c][w] + work[c][w] = obs.batches[c][w]

\* an item was requested twice before its body started, and ran once
C3_Witness ==
    \E c \in Ports, w \in WorkNames :
        /\ obs.took[c][w] = 2
        /\ obs.runs[c][w] = 1
        /\ work[c][w] = 0
        /\ pc[<<w, c>>] = "idle"

(***************************************************************************)
(* C4.  Forced modem-control bits in the deferred update.                  *)
(***************************************************************************)
\* C4: every value ch43x_md_proc writes to MCR equals the bits of the
\* requested signals ORed with the channel's forced bits as they are when
\* the write is made.
C4_ForcedBitsAtWrite ==
    \A c \in Ports :
        obs.md[c].val # -1 =>
            obs.md[c].val = Or(McrOfMctrl(obs.md[c].mctrl), obs.md[c].force)

(***************************************************************************)
(* C5.  Lock ordering and deadlock freedom.                                *)
(***************************************************************************)
\* a step of a thread already under way: no new call, request or interrupt
Running ==
    /\ Next
    /\ env'.calls = env.calls
    /\ env'.reqs = env.reqs
    /\ env'.irqs = env.irqs

C5_Released ==
    /\ \A p \in Procs :
           pc[p] = "idle" => (mutex # p /\ mutex_bus_access # p)
    /\ mutex_bus_access # NoOne => pc[mutex_bus_access] \in BusLabels
    /\ (\E p \in Procs : pc[p] # "idle") => ENABLED Running

C5_Order ==
    \A p \in Procs :
        (mutex' = p /\ mutex # p) => mutex_bus_access # p

\* C5: no thread acquires the state lock while it holds the bus lock; a
\* thread that has returned holds no lock (the abort path of stop-tx
\* included); and whenever a thread is under way, some thread can take a
\* step: no reachable state is a deadlock.
C5_LockOrder == [](C5_Released) /\ [][C5_Order]_vars

\* the interrupt thread drains under the state lock while the stop-tx
\* worker, having aborted with RS485 enabled, has returned
C5_Witness ==
    \E c \in Ports :
        /\ obs.stx[c].rs485 /\ obs.stx[c].temt = "no"
        /\ pc[<<"stop_tx_work", c>>] = "idle"
        /\ obs.runs[c]["stop_tx_work"] = 1
        /\ mutex = Ist
        /\ mutex_bus_access = Ist

(***************************************************************************)
(* C6.  Shutdown and the deferred actions.                                 *)
(***************************************************************************)
\* C6: when ch43x_shutdown makes its first register write on a channel, no
\* work item of the channel is queued or running, and no worker of the
\* channel makes a register transaction after it.
C6_ShutdownCancels ==
    \A c \in Ports : ~obs.sdpend[c] /\ ~obs.late[c]

(***************************************************************************)
(* C7.  RX classification priority.                                        *)
(***************************************************************************)
RxAllThree(lsr) ==
    /\ Has(lsr, CH43X_LSR_BI_BIT)
    /\ Has(lsr, CH43X_LSR_PE_BIT)
    /\ Has(lsr, CH43X_LSR_FE_BIT)

\* the counters of port c moved as for a break, and only so
RxCountedBreakOnly(c) ==
    /\ port[c].icount.brk = obs.rx[c].before.brk + 1
    /\ port[c].icount.parity = obs.rx[c].before.parity
    /\ port[c].icount.frame = obs.rx[c].before.frame
    /\ port[c].icount.overrun = obs.rx[c].before.overrun
    /\ port[c].icount.rx = obs.rx[c].before.rx + 1

\* C7, as amended: for a received byte whose line status has break, parity
\* and frame all set, the break counter is incremented and the parity and
\* frame counters are not; the flag is never parity or frame: it is break
\* when the read-status-mask holds the break bit (break signalling was
\* requested) and normal when it does not.
C7_RxPriority ==
    \A c \in Ports :
        (obs.rx[c].n > 0 /\ RxAllThree(obs.rx[c].lsr)) =>
            /\ RxCountedBreakOnly(c)
            /\ obs.rx[c].flag =
                   (IF Has(obs.rx[c].mask, CH43X_LSR_BI_BIT)
                    THEN "TTY_BREAK" ELSE "TTY_NORMAL")
            /\ ~Has(obs.rx[c].status, CH43X_LSR_PE_BIT)
            /\ ~Has(obs.rx[c].status, CH43X_LSR_FE_BIT)

\* such a byte was handed on as a break
C7_Witness ==
    \E c \in Ports :
        /\ obs.rx[c].n > 0 /\ RxAllThree(obs.rx[c].lsr)
        /\ obs.rx[c].delivered
        /\ obs.rx[c].flag = "TTY_BREAK"
        /\ port[c].icount.brk = 1

\* C7 as stated: the flag of such a byte is break, whatever was requested
C7_AsStated ==
    \A c \in Ports :
        (obs.rx[c].n > 0 /\ RxAllThree(obs.rx[c].lsr) /\ obs.rx[c].delivered) =>
            /\ RxCountedBreakOnly(c)
            /\ obs.rx[c].flag = "TTY_BREAK"

(***************************************************************************)
(* C8.  Read-status-mask filtering.                                        *)
(***************************************************************************)
\* the caller of port c is past the statements that set the mask
RxMaskSet(c) ==
    /\ obs.cfg[c].req # NoTermios
    /\ pc[<<"uart", c>>] \notin {"st_rsm_inpck", "st_rsm_brk"}

\* the mask of port c is the one of the last configuration request
RxMaskOfRequest(c) ==
    /\ RxMaskSet(c) =>
          port[c].read_status_mask = ReadStatusMask(obs.cfg[c].req.iflag)
    /\ (obs.cfg[c].req # NoTermios /\ "INPCK" \notin obs.cfg[c].req.iflag) =>
          /\ Has(port[c].read_status_mask, CH43X_LSR_OE_BIT)
          /\ ~Has(port[c].read_status_mask, CH43X_LSR_PE_BIT)
          /\ ~Has(port[c].read_status_mask, CH43X_LSR_FE_BIT)

\* C8, as amended: after a configuration request with input parity checking
\* disabled, the read-status-mask holds overrun and neither parity nor
\* frame, and a received byte whose line status has the parity-error bit is
\* never flagged parity or frame: its flag is normal, unless its line
\* status also has the break bit and the read-status-mask holds the break
\* bit (break signalling was requested), and then it is break.
C8_MaskFiltering ==
    \A c \in Ports :
        /\ RxMaskOfRequest(c)
        /\ (obs.rx[c].n > 0 /\ "INPCK" \notin obs.rx[c].iflag
            /\ Has(obs.rx[c].lsr, CH43X_LSR_PE_BIT)) =>
               obs.rx[c].flag =
                   (IF Has(obs.rx[c].lsr, CH43X_LSR_BI_BIT)
                       /\ Has(obs.rx[c].mask, CH43X_LSR_BI_BIT)
                    THEN "TTY_BREAK" ELSE "TTY_NORMAL")

\* with break signalling requested and parity checking not, a byte with a
\* parity error and no break was handed on as normal
C8_Witness ==
    \E c \in Ports :
        /\ obs.cfg[c].req.iflag = {"BRKINT"}
        /\ RxMaskSet(c)
        /\ obs.rx[c].n > 0 /\ obs.rx[c].iflag = {"BRKINT"}
        /\ obs.rx[c].mask = Or(CH43X_LSR_OE_BIT, CH43X_LSR_BI_BIT)
        /\ Has(obs.rx[c].lsr, CH43X_LSR_PE_BIT)
        /\ ~Has(obs.rx[c].lsr, CH43X_LSR_BI_BIT)
        /\ obs.rx[c].delivered
        /\ obs.rx[c].flag = "TTY_NORMAL"
        /\ port[c].icount.parity = 1

\* C8 as stated: with parity checking disabled, every byte with the
\* parity-error bit set is handed on with the normal flag
C8_AsStated ==
    \A c \in Ports :
        /\ RxMaskOfRequest(c)
        /\ (obs.rx[c].n > 0 /\ "INPCK" \notin obs.rx[c].iflag
            /\ Has(obs.rx[c].lsr, CH43X_LSR_PE_BIT) /\ obs.rx[c].delivered) =>
               obs.rx[c].flag = "TTY_NORMAL"

(***************************************************************************)
(* C9.  Achieved baud.                                                     *)
(***************************************************************************)
\* C9: for every baud requested within [clock/16/65535, clock/16*24],
\* ch43x_set_baud returns round_closest(clock/16, floor(clock/16/baud)), a
\* well-defined integer; at 9600 the divisor is 288 and the result 9600.
C9_AchievedBaud ==
    \A c \in Ports :
        LET b == obs.baud[c]
        IN  (b.req # 0 /\ b.req >= BaudMin(UartClk) /\ b.req <= BaudMax(UartClk)) =>
                /\ b.ok
                /\ b.div = (UartClk \div 16) \div b.req
                /\ b.div >= 1
                /\ b.val = ((UartClk \div 16) + (b.div \div 2)) \div b.div
                /\ b.req = 9600 => (b.div = 288 /\ b.val = 9600)

(***************************************************************************)
(* C10.  Line-control round trip.                                          *)
(***************************************************************************)
SameLine(t1, t2) ==
    /\ ReqWordLen(t1.csize) = ReqWordLen(t2.csize)
    /\ ReqParity(t1.cflag) = ReqParity(t2.cflag)
    /\ ReqStopBits(t1.cflag) = ReqStopBits(t2.cflag)

\* C10: the byte ch43x_set_termios writes to LCR for a request of word
\* length, parity (none, odd, even, mark, space) and stop bits decodes back
\* to the request, and no request for another configuration yields the
\* same byte.
C10_LcrRoundTrip ==
    \A c \in Ports :
        LET req == obs.cfg[c].req
            lcr == obs.cfg[c].lcr
        IN  lcr # -1 =>
                /\ LcrWordLen(lcr) = ReqWordLen(req.csize)
                /\ LcrParity(lcr) = ReqParity(req.cflag)
                /\ LcrStopBits(lcr) = ReqStopBits(req.cflag)
                /\ \A t \in TermLines :
                       TermiosLcr(t.csize, t.cflag) = lcr => SameLine(t, req)

(***************************************************************************)
(* C11.  Atomic register update.                                           *)
(***************************************************************************)
\* where a thread stands between the read and the write-back of a
\* ch43x_port_update or ch43x_port_update_specify
UpdateIerLabels ==
    {"wq_ier_wr", "srx_rdi_wr", "srx_rlsi_wr", "stx_ier_wr", "tx_ier_wr",
     "su_pw_wr", "sd_pw_wr", "pm_wr"}
UpdateMcrLabels == {"st_mcr_wr"}

\* the channel whose register the update of thread p is about
UpdateChan(p) ==
    IF pc[p] \in {"su_pw_wr", "sd_pw_wr", "pm_wr"} THEN 0
    ELSE IF p = Ist THEN loc[p].line
    ELSE p[2]

UpdateReg(p) ==
    IF pc[p] \in UpdateMcrLabels THEN CH43X_MCR_REG ELSE CH43X_IER_REG

\* C11: between the read and the write-back of an update of a register, no
\* other context's write to that register of that channel takes effect: the
\* register still holds what the update read when it writes back.
C11_AtomicUpdate ==
    \A p \in Procs :
        pc[p] \in UpdateIerLabels \cup UpdateMcrLabels =>
            HwRead(hw, UpdateChan(p), UpdateReg(p)) = loc[p].tmp

(***************************************************************************)
(* C12.  IER updates and the state lock.                                   *)
(***************************************************************************)
\* where a thread stands inside an operation on IER: before its read, or
\* between its read and its write, or before its plain write
IerReadLabels ==
    {"wq_ier_rd", "srx_rdi_rd", "srx_rlsi_rd", "stx_ier_rd", "tx_ier_rd",
     "su_pw_rd", "su_ier_rd", "sd_pw_rd", "pm_rd"}
IerWriteBackLabels == UpdateIerLabels \cup {"su_ier_wr"}
IerPlainWriteLabels == {"sd_ier"}

\* C12: every operation that modifies a channel's IER holds the state lock
\* for its whole read-modify-write, and the IER it writes back to still
\* holds what it read (no change by another context is overwritten).
C12_IerUnderStateLock ==
    \A p \in Procs :
        /\ pc[p] \in IerReadLabels \cup IerWriteBackLabels \cup IerPlainWriteLabels
               => mutex = p
        /\ pc[p] \in IerWriteBackLabels =>
               HwRead(hw, IF pc[p] = "su_ier_wr" THEN p[2] ELSE UpdateChan(p),
                      CH43X_IER_REG) = loc[p].tmp

(***************************************************************************)
(* C13.  Shutdown resets the channel.                                      *)
(***************************************************************************)
\* ch43x_shutdown of channel c has completed and c was not opened since
ShutDown(c) ==
    /\ ~env.open[c]
    /\ obs.torn[c]
    /\ pc[<<"uart", c>>] = "idle"

IerSources ==
    Or(CH43X_IER_RDI_BIT,
       Or(CH43X_IER_THRI_BIT, Or(CH43X_IER_RLSI_BIT, CH43X_IER_MSI_BIT)))

\* C13: after the shutdown of a channel, 0 or 1, has completed, the RX-data,
\* TX-ready, line-status and modem-status bits of its IER are all 0, its MCR
\* is 0 and its forced modem-control bits are 0.
C13_ShutdownResets ==
    \A c \in Ports :
        ShutDown(c) =>
            /\ And(hw[c].ier, IerSources) = 0
            /\ hw[c].mcr = 0
            /\ one[c].mcr_force = 0

(***************************************************************************)
(* C14.  Dispatch termination.                                             *)
(***************************************************************************)
\* the interrupt thread is in the dispatch loop of channel c
Dispatching(c) == pc[Ist] # "idle" /\ loc[Ist].line = c

\* C14: the device reports "no interrupt pending" once the sources it
\* raised were serviced; then the dispatch loop of each channel terminates
\* and the dispatcher goes on to the next channel or returns: no handler
\* called from the loop (RX drain, TX drain, modem-status read) blocks
\* forever.
C14_DispatchTerminates ==
    \A c \in Ports : Dispatching(c) ~> ~Dispatching(c)

(***************************************************************************)
(* C15.  RS485 configuration round trip.                                   *)
(***************************************************************************)
\* the last request on channel c was a get that succeeded
Rs485GotLast(c) ==
    /\ obs.ioctl[c].cmd = "IOCTL_CMD_GRS485"
    /\ ~obs.ioctl[c].fault
    /\ obs.ioctl[c].ret = "0"

\* C15: after a successful RS485 set with record r on a channel, every
\* RS485 get on that channel returns exactly r until the next successful
\* set on it, and a set on one channel leaves the other channel's record
\* as it was.
C15_Rs485RoundTrip ==
    \A c \in Ports :
        /\ one[c].rs485 = obs.ioctl[c].set
        /\ Rs485GotLast(c) => obs.ioctl[c].out = obs.ioctl[c].set

\* a get returned the record set before, while the other channel holds
\* another record
C15_Witness ==
    \E c \in Ports, d \in Ports :
        /\ Rs485GotLast(c)
        /\ obs.ioctl[c].n >= 2
        /\ obs.ioctl[c].out # NoRs485
        /\ obs.ioctl[c].out = obs.ioctl[c].set
        /\ d # c
        /\ one[d].rs485 # one[c].rs485

(***************************************************************************)
(* C16.  A rejected RS485 request leaves the state unchanged.              *)
(***************************************************************************)
\* C16: an RS485 set whose record cannot be read from the caller returns
\* the fault result and leaves the channel's stored record as it was
\* before the call; an unknown request code returns "not handled" and
\* changes no channel state.
C16_RejectedUnchanged ==
    [][\A c \in Ports :
           obs'.ioctl[c].n # obs.ioctl[c].n =>
               LET r == obs'.ioctl[c]
               IN  /\ (r.cmd = "IOCTL_CMD_SRS485" /\ r.fault) =>
                          /\ r.ret = "EFAULT"
                          /\ one'[c].rs485 = one[c].rs485
                   /\ r.cmd = "other" =>
                          /\ r.ret = "ENOIOCTLCMD"
                          /\ one' = one /\ port' = port /\ hw' = hw
                          /\ work' = work /\ buf' = buf]_vars

\* a set that faulted on a channel that holds a record other than the one
\* asked for
C16_Witness ==
    \E c \in Ports :
        /\ obs.ioctl[c].cmd = "IOCTL_CMD_SRS485"
        /\ obs.ioctl[c].fault
        /\ obs.ioctl[c].ret = "EFAULT"
        /\ one[c].rs485 # NoRs485
        /\ one[c].rs485 # obs.ioctl[c].arg
        /\ one[c].rs485 = obs.ioctl[c].before

(***************************************************************************)
(* C17.  Single forced read.                                               *)
(***************************************************************************)
\* the bytes the present or last RX drain of channel c has read, and
\* whether it has flushed
DrainCounted(c) ==
    /\ obs.drain[c].reads >= 1
    /\ port[c].icount.rx = obs.drain[c].rx0 + obs.drain[c].reads
    /\ obs.flips[c] = obs.drain[c].flips0 + (IF obs.drain[c].done THEN 1 ELSE 0)

\* C17, as amended: an RX drain entered from the line-status-error source
\* whose line-status read shows the FIFO-error bit reads one data byte at
\* once, without waiting for data-ready, and classifies and counts it; it
\* then reads a further byte for every following line-status read that
\* shows data-ready, stops at the first that does not, and flushes once,
\* after its last read.
C17_ForcedRead ==
    \A c \in Ports :
        obs.drain[c].forced =>
            /\ Has(obs.drain[c].lsr1, CH43X_LSR_FIFOE_BIT)
            /\ DrainCounted(c)
            /\ obs.drain[c].reads <= 1 + obs.drain[c].more
            /\ obs.drain[c].done => obs.drain[c].reads = 1 + obs.drain[c].more

\* a forced read with the byte not shown as ready, followed by a second
\* read in the same drain
C17_Witness ==
    \E c \in Ports :
        /\ obs.drain[c].forced
        /\ ~Has(obs.drain[c].lsr1, CH43X_LSR_DR_BIT)
        /\ obs.drain[c].done
        /\ obs.drain[c].reads = 2

\* C17 as stated: a drain that made the forced read reads no further byte
C17_AsStated ==
    \A c \in Ports :
        obs.drain[c].forced =>
            /\ DrainCounted(c)
            /\ obs.drain[c].reads = 1

(***************************************************************************)
(* C18.  Overrun accounting.                                               *)
(***************************************************************************)
\* C18: for every received byte whose line status has the overrun bit, the
\* overrun counter is incremented by one, whether or not the break, parity
\* or frame bits are set as well, and the byte's flag is never overrun.
C18_OverrunCounted ==
    \A c \in Ports :
        (obs.rx[c].n > 0 /\ Has(obs.rx[c].lsr, CH43X_LSR_OE_BIT)) =>
            /\ port[c].icount.overrun = obs.rx[c].before.overrun + 1
            /\ obs.rx[c].flag \in {"TTY_NORMAL", "TTY_BREAK", "TTY_PARITY", "TTY_FRAME"}

(***************************************************************************)
(* C19.  The effect of stop-rx.                                            *)
(***************************************************************************)
SrxProc(c) == <<"stop_rx_work", c>>
\* the stop-rx action of channel c has done its work and is about to
\* release the state lock
SrxRan(c) == pc[SrxProc(c)] = "srx_unlock"

IerTxMs == Or(CH43X_IER_THRI_BIT, CH43X_IER_MSI_BIT)

\* the step of stop-rx that changes the mask clears data-ready and nothing
\* else; its two IER writes clear RX-data, then RX-line-status, and leave
\* TX-ready and modem-status as they were
SrxSteps(c) ==
    /\ (pc[SrxProc(c)] = "srx_lock" /\ pc'[SrxProc(c)] = "srx_rdi_rd") =>
           /\ port'[c].read_status_mask =
                  And(port[c].read_status_mask, Not8(CH43X_LSR_DR_BIT))
           /\ Has(port'[c].read_status_mask, CH43X_LSR_OE_BIT)
                  = Has(port[c].read_status_mask, CH43X_LSR_OE_BIT)
    /\ (pc[SrxProc(c)] = "srx_rdi_wr" /\ pc'[SrxProc(c)] = "srx_rlsi_rd") =>
           /\ hw'[c].ier = And(hw[c].ier, Not8(CH43X_IER_RDI_BIT))
           /\ And(hw'[c].ier, IerTxMs) = And(hw[c].ier, IerTxMs)
    /\ (pc[SrxProc(c)] = "srx_rlsi_wr" /\ pc'[SrxProc(c)] = "srx_unlock") =>
           /\ hw'[c].ier = And(hw[c].ier, Not8(CH43X_IER_RLSI_BIT))
           /\ And(hw'[c].ier, IerTxMs) = And(hw[c].ier, IerTxMs)

ForcedOrRs485Written(c) ==
    \/ one'[c].mcr_force # one[c].mcr_force
    \/ one'[c].rs485 # one[c].rs485

\* C20: every step that writes a channel's forced modem-control bits or its
\* RS485 record is taken by a writer that holds the state lock.
C20_ForcedUnderStateLock ==
    [][\A c \in Ports :
           ForcedOrRs485Written(c) => mutex = <<"uart", c>>]_vars

(***************************************************************************)
(* C21.  The sequence and the frame of set_baud.                           *)
(***************************************************************************)
SbLabels == {"sb_lcr_rd", "sb_lcr_dlab", "sb_dlh", "sb_dll", "sb_lcr_restore"}

\* the five transactions of the claim, for the line control lcr found at
\* entry and the divisor div
SbExpected(lcr, div) ==
    << [op |-> "read", reg |-> CH43X_LCR_REG, val |-> lcr],
       [op |-> "write", reg |-> CH43X_LCR_REG, val |-> CH43X_LCR_DLAB_BIT],
       [op |-> "write", reg |-> CH43X_DLH_REG, val |-> (div \div 256) % 256],
       [op |-> "write", reg |-> CH43X_DLL_REG, val |-> div % 256],
       [op |-> "write", reg |-> CH43X_LCR_REG, val |-> lcr] >>

\* the transactions made so far are the first ones of the expected five,
\* and all five once the call has returned, with LCR back at its value
SbInOrder(c) ==
    LET l == obs.sb[c].log
    IN  /\ Len(l) <= 5
        /\ Len(l) >= 1 =>
               l = SubSeq(SbExpected(l[1].val, obs.sb[c].div), 1, Len(l))
        /\ obs.sb[c].done =>
               /\ Len(l) = 5
               /\ hw[c].lcr = l[1].val
               /\ hw[c].dlh = (obs.sb[c].div \div 256) % 256
               /\ hw[c].dll = obs.sb[c].div % 256

\* the registers of channel c but LCR and the divisor latches
SbOthers(h, c) == [h[c] EXCEPT !.lcr = 0, !.dll = 0, !.dlh = 0]

\* a step taken while set_baud of channel c is under way changes no
\* register but c's LCR and divisor latches
SbFrame(c) ==
    pc[<<"uart", c>>] \in SbLabels =>
        /\ SbOthers(hw', c) = SbOthers(hw, c)
        /\ \A d \in Ports \ {c} : hw'[d] = hw[d]

\* C21: set_baud issues, in this order, a read of LCR, a write of LCR with
\* only the divisor-access bit set, a write of the divisor high byte, a
\* write of the divisor low byte and a write restoring the saved LCR; when
\* it returns LCR equals its value at entry and no register other than the
\* divisor latches has changed.
C21_SetBaudSequence ==
    /\ [](\A c \in Ports : SbInOrder(c))
    /\ [][\A c \in Ports : SbFrame(c)]_vars

\* set_baud has returned after programming a divisor whose high byte is not
\* zero, over a line control that is not zero
C21_Witness ==
    \E c \in Ports :
        /\ obs.sb[c].done
        /\ obs.sb[c].div > 511
        /\ hw[c].dlh = obs.sb[c].div \div 256
        /\ hw[c].lcr # 0
        /\ ~Has(hw[c].lcr, CH43X_LCR_DLAB_BIT)

(***************************************************************************)
(* C22.  TX drain with nothing to send, or with an immediate character.    *)
(***************************************************************************)
\* the interrupt thread is inside the TX drain of channel c, past its entry,
\* or has just returned from it
TxdIn(c) ==
    /\ loc[Ist].line = c
    /\ pc[Ist] \in {"tx_xchar", "tx_ier_rd", "tx_ier_wr", "tx_raw",
                    "irq_tx_unlock"}
TxdReturned(c) == loc[Ist].line = c /\ pc[Ist] = "irq_tx_unlock"

\* the drain found no immediate character, and the ring empty or output
\* stopped
TxdNothing(c) ==
    obs.txd[c].x = 0 /\ (obs.txd[c].empty \/ obs.txd[c].stopped)

TxdIdleEffect(c) ==
    /\ obs.txd[c].wrote = 0
    /\ port[c].tail = obs.txd[c].tail0
    /\ port[c].icount.tx = obs.txd[c].tx0
    /\ TxdReturned(c) => ~Has(hw[c].ier, CH43X_IER_THRI_BIT)

TxdXcharEffect(c) ==
    /\ port[c].tail = obs.txd[c].tail0
    /\ obs.txd[c].wrote <= 1
    /\ port[c].icount.tx = obs.txd[c].tx0 + obs.txd[c].wrote
    /\ TxdReturned(c) =>
           /\ obs.txd[c].wrote = 1
           /\ obs.txd[c].byte = obs.txd[c].x

\* the step that writes the immediate character clears its slot
TxdSlotCleared(c) ==
    (loc[Ist].line = c /\ pc[Ist] = "tx_xchar" /\ pc'[Ist] = "irq_tx_unlock")
        => port'[c].x_char = 0

\* C22: when no immediate control character is queued and the source is
\* empty or transmission is stopped, TX drain clears the TX-ready interrupt
\* enable bit, writes no byte to the transmit FIFO and leaves the source
\* cursor and the transmitted-byte counter unchanged; when an immediate
\* control character is queued, exactly that one byte is written, the
\* counter grows by 1, the slot is cleared and the source cursor is
\* unchanged.
C22_TxDrainIdle ==
    /\ [](\A c \in Ports :
              TxdIn(c) =>
                  /\ TxdNothing(c) => TxdIdleEffect(c)
                  /\ obs.txd[c].x # 0 => TxdXcharEffect(c))
    /\ [][\A c \in Ports : TxdSlotCleared(c)]_vars

\* a drain has returned that found output stopped over a ring with bytes in
\* it, after an earlier drain that sent an immediate character
C22_Witness ==
    \E c \in Ports :
        /\ TxdReturned(c)
        /\ TxdNothing(c)
        /\ obs.txd[c].stopped /\ ~obs.txd[c].empty
        /\ obs.txd[c].prevx # 0
        /\ port[c].icount.tx = 1
        /\ port[c].x_char = 0

(***************************************************************************)
(* C23.  OUT2 while a channel is active.                                   *)
(***************************************************************************)
ShutdownLabels == {"sd_ier", "sd_mcr", "sd_force", "sd_pw_rd", "sd_pw_wr"}

\* ch43x_startup of channel c has completed and ch43x_shutdown has not
\* started
Active(c) == env.open[c] /\ pc[<<"uart", c>>] \notin ShutdownLabels

\* C23: in every state between the completion of startup and the start of
\* shutdown of a channel, the channel's MCR has the OUT2 bit set.
C23_Out2WhileActive ==
    \A c \in Ports : Active(c) => Has(hw[c].mcr, CH43X_MCR_OUT2)

(***************************************************************************)
(* C24.  The divisor-access window.                                        *)
(***************************************************************************)
\* where the next statement of a worker or of the interrupt thread is a
\* transaction on register 0 (RHR, THR) or register 1 (IER)
BankedLabels ==
    {"wq_ier_rd", "wq_ier_wr", "srx_rdi_rd", "srx_rdi_wr", "srx_rlsi_rd",
     "srx_rlsi_wr", "stx_ier_rd", "stx_ier_wr", "tx_ier_rd", "tx_ier_wr",
     "tx_xchar", "tx_raw", "rx_rhr", "rx_rhr_forced"}

BankedChan(p) == IF p = Ist THEN loc[Ist].line ELSE p[2]

\* C24: while a channel's LCR has the divisor-access bit set, no worker and
\* no interrupt-thread code makes a transaction on that channel's register
\* 0 or 1.
C24_DlabIsolation ==
    \A p \in Workers \cup {Ist} :
        (mutex_bus_access = p /\ pc[p] \in BankedLabels)
            => ~Dlab(hw, BankedChan(p))

(***************************************************************************)
(* C25.  start-tx after stop-tx.                                           *)
(***************************************************************************)
\* stop-tx and then start-tx were requested on channel c, and nothing else
StopThenStart(c) == obs.txreqs[c] = <<"stop_tx_work", "tx_work">>

\* both deferred actions have run and returned
BothRan(c) ==
    /\ obs.runs[c]["stop_tx_work"] = 1 /\ pc[<<"stop_tx_work", c>>] = "idle"
    /\ obs.runs[c]["tx_work"] = 1 /\ pc[<<"tx_work", c>>] = "idle"
    /\ work[c]["stop_tx_work"] = 0 /\ work[c]["tx_work"] = 0

\* C25: if stop-tx and then start-tx are requested for a channel whose
\* source is not empty, then once both deferred actions have run, in
\* whatever order, the TX-ready interrupt enable bit is set.
C25_StartAfterStop ==
    \A c \in Ports :
        (StopThenStart(c) /\ ~uart_circ_empty(port[c]) /\ BothRan(c))
            => Has(hw[c].ier, CH43X_IER_THRI_BIT)

(***************************************************************************)
(* C26.  No lost interrupt on the shared line.                             *)
(***************************************************************************)
\* C26: every interrupt condition raised by either channel is eventually
\* serviced.
C26_NoLostInterrupt ==
    \A c \in Ports : env.pend[c] ~> ~env.pend[c]

(***************************************************************************)
(* C27.  Channel isolation of startup, shutdown and power.                 *)
(***************************************************************************)
OtherPorts(c) == Ports \ {c}

LifeStep(c) == pc'[<<"uart", c>>] # pc[<<"uart", c>>]

(* C27: a step of startup, shutdown or a power-state change of one channel *)
(* leaves every register of the other channel unchanged, its IER and the   *)
(* sleep bit of that IER included.                                         *)
C27_ChannelIsolation ==
    [][\A c \in Ports :
          LifeStep(c) => \A d \in OtherPorts(c) : hw'[d] = hw[d]]_vars

(***************************************************************************)
(* C28.  MCR and the forced modem-control bits at quiescence.              *)
(***************************************************************************)
\* neither a configuration request nor a modem-control update of channel c
\* is running or queued
FlowQuiet(c) ==
    /\ pc[<<"uart", c>>] = "idle"
    /\ pc[<<"md_work", c>>] = "idle"
    /\ ~work_pending(work, c, "md_work")

\* C28: once a flow-control configuration request and a deferred
\* modem-control update of a channel have both finished, the MCR register
\* contains every bit of the channel's forced modem-control bits.
C28_McrHasForced ==
    \A c \in Ports :
        (env.open[c] /\ FlowQuiet(c)) =>
            And(hw[c].mcr, one[c].mcr_force) = one[c].mcr_force

(***************************************************************************)
(* C29.  The programmed divisor.                                           *)
(***************************************************************************)
\* the value the divisor latches of channel c hold
Latched(c) == hw[c].dlh * 256 + hw[c].dll

\* C29: after ch43x_set_baud for a baud requested within
\* [clock/16/65535, clock/16*24], the computed divisor floor(clock/16/baud)
\* lies in 1..65535 and the divisor latches hold exactly that divisor.
C29_DivisorRepresentable ==
    \A c \in Ports :
        LET b == obs.baud[c]
        IN  (b.req # 0 /\ b.req >= BaudMin(UartClk) /\ b.req <= BaudMax(UartClk)) =>
                /\ b.div = BaudDiv(UartClk, b.req)
                /\ b.div \in 1..65535
                /\ Latched(c) = b.div

(***************************************************************************)
(* C30.  The TX FIFO is never overfilled.                                  *)
(***************************************************************************)
TxDrainLabels == {"tx_entry", "tx_xchar", "tx_ier_rd", "tx_ier_wr", "tx_raw"}

\* ch43x_handle_tx runs only in the interrupt thread, on a THRI source and
\* under s->mutex
TxDrainCalled ==
    pc[Ist] \in TxDrainLabels =>
        /\ mutex = Ist
        /\ loc[Ist].iir = CH43X_IIR_THRI_SRC
        /\ \A p \in Procs \ {Ist} : pc[p] \notin TxDrainLabels

\* the bytes a drain of channel c has written to the transmit register
\* since the THRI source that started it
FifoBounded == \A c \in Ports : obs.txd[c].wrote <= CH43X_FIFO_SIZE

\* between the copy into s->buf and ch43x_raw_write the scratch buffer
\* holds the chunk of the channel being drained
ScratchIntact ==
    pc[Ist] = "tx_raw" =>
        buf = TxChunk(obs.tx[loc[Ist].line].tail0, loc[Ist].tmp)

\* a step that writes the transmit register of channel c is a step of the
\* drain of channel c
ThrWriterIsDrain ==
    \A c \in Ports :
        obs.txd'[c].wrote > obs.txd[c].wrote =>
            /\ pc[Ist] \in {"tx_xchar", "tx_raw"}
            /\ loc[Ist].line = c
            /\ mutex = Ist /\ mutex_bus_access = Ist

\* a step that changes s->buf is the copy of a drain
ScratchWriterIsDrain == buf' # buf => (pc[Ist] = "tx_entry" /\ mutex = Ist)

\* C30: TX drain runs only from the dispatch loop on a TX-holding-register-
\* empty source and with the state lock held, no other context writes the
\* transmit register, a channel's transmit FIFO receives at most 16 bytes
\* since it last reported empty, and two TX drains (of either channel)
\* never use the shared scratch buffer at the same time.
C30_FifoNeverOverfilled ==
    /\ [](TxDrainCalled /\ FifoBounded /\ ScratchIntact)
    /\ [][ThrWriterIsDrain /\ ScratchWriterIsDrain]_vars

\* both channels drained in one pass of the interrupt thread, a full FIFO
\* of 16 bytes each out of 17 pending
C30_Witness ==
    /\ \A c \in Ports :
           /\ obs.txd[c].wrote = CH43X_FIFO_SIZE
           /\ CircPending(port[c].head, port[c].tail) = 1
    /\ Len(buf) = CH43X_FIFO_SIZE
    /\ loc[Ist].line = 1

=============================================================================
